---- MODULE Spec2Model ----
(***************************************************************************)
(* A model of the task record of tada (src/item.rs): the positional parser *)
(* of a todo.txt line, the Display rendering, the lazily cached derived    *)
(* fields and the setters that invalidate them, the urgency                *)
(* classification against the process-wide "today" snapshot, the           *)
(* operations that return a rescheduled or completed copy, the sort        *)
(* orders (src/action.rs), the list commands done, remove, archive, tidy   *)
(* and find, the selections of important, quick and urgent, and archive on *)
(* the files todo.txt and done.txt (src/list.rs, src/action/).             *)
(*                                                                         *)
(* Text is a sequence of one-character strings, so that the regular        *)
(* expressions, trim, replace, and the date parser and formatter are       *)
(* modelled by what they do to characters.  A NaiveDate is a triple        *)
(* <<year, month, day>>.  Option<T> is <<>> (None) or <<v>> (Some(v)); a   *)
(* FreezeBox<T> is <<>> (uninitialized) or <<v>> (initialized with v).     *)
(***************************************************************************)
EXTENDS Integers, Sequences, FiniteSets, TLC

VARIABLES today, item, lastOp, wasInit, text, parsed, ret, arg, list, files

vars == <<today, item, lastOp, wasInit, text, parsed, ret, arg, list, files>>

None == <<>>
Some(v) == <<v>>
IsSome(o) == o # <<>>
Unwrap(o) == o[1]

(***************************************************************************)
(* Characters                                                              *)
(***************************************************************************)
Digits == {"0", "1", "2", "3", "4", "5", "6", "7", "8", "9"}

UpperAZ == {"A", "B", "C", "D", "E", "F", "G", "H", "I", "J", "K", "L", "M",
            "N", "O", "P", "Q", "R", "S", "T", "U", "V", "W", "X", "Y", "Z"}

\* \s of the regex crate and char::is_whitespace, on the characters used here
IsSpace(c) == c \in {" ", "\t", "\r", "\n"}

IsDigit(c) == c \in Digits

DigitVal(c) ==
    CASE c = "0" -> 0 [] c = "1" -> 1 [] c = "2" -> 2 [] c = "3" -> 3
      [] c = "4" -> 4 [] c = "5" -> 5 [] c = "6" -> 6 [] c = "7" -> 7
      [] c = "8" -> 8 [] c = "9" -> 9

DigitChar(n) ==
    CASE n = 0 -> "0" [] n = 1 -> "1" [] n = 2 -> "2" [] n = 3 -> "3"
      [] n = 4 -> "4" [] n = 5 -> "5" [] n = 6 -> "6" [] n = 7 -> "7"
      [] n = 8 -> "8" [] n = 9 -> "9"

\* char::to_lowercase on ASCII characters
to_lowercase_char(c) ==
    LET lower == <<"a", "b", "c", "d", "e", "f", "g", "h", "i", "j", "k", "l",
                   "m", "n", "o", "p", "q", "r", "s", "t", "u", "v", "w", "x",
                   "y", "z">>
        upper == <<"A", "B", "C", "D", "E", "F", "G", "H", "I", "J", "K", "L",
                   "M", "N", "O", "P", "Q", "R", "S", "T", "U", "V", "W", "X",
                   "Y", "Z">>
    IN  IF c \in UpperAZ
        THEN lower[CHOOSE k \in 1..26 : upper[k] = c]
        ELSE c

to_lowercase(s) == [k \in 1..Len(s) |-> to_lowercase_char(s[k])]

\* the characters s[a], ..., s[b-1]
Slice(s, a, b) == SubSeq(s, a, b - 1)

\* str::trim
TrimStart(s) ==
    IF \A k \in 1..Len(s) : IsSpace(s[k]) THEN <<>>
    ELSE LET a == CHOOSE k \in 1..Len(s) :
                     /\ ~IsSpace(s[k])
                     /\ \A j \in 1..(k - 1) : IsSpace(s[j])
         IN  SubSeq(s, a, Len(s))

TrimEnd(s) ==
    IF \A k \in 1..Len(s) : IsSpace(s[k]) THEN <<>>
    ELSE LET b == CHOOSE k \in 1..Len(s) :
                     /\ ~IsSpace(s[k])
                     /\ \A j \in (k + 1)..Len(s) : IsSpace(s[j])
         IN  SubSeq(s, 1, b)

trim(s) == TrimEnd(TrimStart(s))

\* does pat occur in s at position p
OccursAt(s, pat, p) ==
    /\ p + Len(pat) - 1 <= Len(s)
    /\ \A k \in 1..Len(pat) : s[p + k - 1] = pat[k]

\* str::replace: every non-overlapping occurrence, left to right
RECURSIVE ReplaceFrom(_, _, _, _)
ReplaceFrom(s, pat, to, p) ==
    IF p > Len(s) THEN <<>>
    ELSE IF Len(pat) > 0 /\ OccursAt(s, pat, p)
         THEN to \o ReplaceFrom(s, pat, to, p + Len(pat))
         ELSE <<s[p]>> \o ReplaceFrom(s, pat, to, p + 1)

replace(s, pat, to) == ReplaceFrom(s, pat, to, 1)

(***************************************************************************)
(* Calendar (chrono::NaiveDate, proleptic Gregorian)                       *)
(***************************************************************************)
IsLeap(y) == (y % 4 = 0 /\ y % 100 # 0) \/ y % 400 = 0

DaysInMonth(y, m) ==
    CASE m \in {1, 3, 5, 7, 8, 10, 12} -> 31
      [] m \in {4, 6, 9, 11} -> 30
      [] m = 2 -> IF IsLeap(y) THEN 29 ELSE 28

\* NaiveDate::from_ymd_opt
from_ymd_opt(y, m, d) ==
    IF m \in 1..12 /\ d >= 1 /\ d <= DaysInMonth(y, m)
    THEN Some(<<y, m, d>>) ELSE None

\* days from 0001-01-01 (day 1) to the last day of year y - 1
DaysBeforeYear(y) ==
    365 * (y - 1) + ((y - 1) \div 4) - ((y - 1) \div 100) + ((y - 1) \div 400)

RECURSIVE DaysBeforeMonth(_, _)
DaysBeforeMonth(y, m) ==
    IF m = 1 THEN 0 ELSE DaysBeforeMonth(y, m - 1) + DaysInMonth(y, m - 1)

\* Datelike::num_days_from_ce
num_days_from_ce(date) ==
    DaysBeforeYear(date[1]) + DaysBeforeMonth(date[1], date[2]) + date[3]

\* NaiveDate::from_num_days_from_ce_opt
from_num_days_from_ce(n) ==
    LET y == CHOOSE yy \in ((n \div 366) - 1)..((n \div 365) + 1) :
                 DaysBeforeYear(yy) < n /\ n <= DaysBeforeYear(yy + 1)
        doy == n - DaysBeforeYear(y)
        m == CHOOSE mm \in 1..12 :
                 /\ DaysBeforeMonth(y, mm) < doy
                 /\ doy <= DaysBeforeMonth(y, mm) + DaysInMonth(y, mm)
    IN  <<y, m, doy - DaysBeforeMonth(y, m)>>

\* NaiveDate + Duration::days(k)
AddDays(date, k) == from_num_days_from_ce(num_days_from_ce(date) + k)

\* NaiveDate::pred_opt().unwrap()
pred(date) == AddDays(date, -1)

\* Weekday::number_from_monday, the %u of the formatter: Monday 1 .. Sunday 7
number_from_monday(date) == ((num_days_from_ce(date) - 1) % 7) + 1

\* the derived Ord of NaiveDate
DateLt(a, b) == num_days_from_ce(a) < num_days_from_ce(b)
DateLe(a, b) == num_days_from_ce(a) <= num_days_from_ce(b)

\* NaiveDate::week(Weekday::Mon).last_day()
week_last_day(date) == AddDays(date, 7 - number_from_monday(date))

(***************************************************************************)
(* NaiveDate::parse_from_str(s, "%Y-%m-%d") and format("%Y-%m-%d")         *)
(***************************************************************************)
RECURSIVE NumVal(_)
NumVal(s) ==
    IF Len(s) = 0 THEN 0
    ELSE 10 * NumVal(SubSeq(s, 1, Len(s) - 1)) + DigitVal(s[Len(s)])

\* length of the run of digits of s starting at p, at most max
RECURSIVE DigitRun(_, _, _)
DigitRun(s, p, max) ==
    IF max = 0 \/ p > Len(s) \/ ~IsDigit(s[p]) THEN 0
    ELSE 1 + DigitRun(s, p + 1, max - 1)

\* %Y takes one or more digits (an optional sign first), %m and %d one or
\* two; the literals are "-"; nothing may follow the day.
parse_from_str(s) ==
    LET sign == IF Len(s) > 0 /\ s[1] \in {"-", "+"} THEN 1 ELSE 0
        ys == 1 + sign
        yl == DigitRun(s, ys, Len(s))
        ms == ys + yl + 1
        ml == DigitRun(s, ms, 2)
        ds == ms + ml + 1
        dl == DigitRun(s, ds, 2)
    IN  IF /\ yl >= 1
           /\ ms - 1 <= Len(s) /\ s[ms - 1] = "-"
           /\ ml >= 1
           /\ ds - 1 <= Len(s) /\ s[ds - 1] = "-"
           /\ dl >= 1
           /\ ds + dl = Len(s) + 1
        THEN LET yabs == NumVal(Slice(s, ys, ys + yl))
                 y == IF sign = 1 /\ s[1] = "-" THEN 0 - yabs ELSE yabs
             IN  from_ymd_opt(y, NumVal(Slice(s, ms, ms + ml)),
                              NumVal(Slice(s, ds, ds + dl)))
        ELSE None

\* zero-padded decimal of n in w digits
RECURSIVE Pad(_, _)
Pad(n, w) == IF w = 0 THEN <<>> ELSE Pad(n \div 10, w - 1) \o <<DigitChar(n % 10)>>

\* date.format("%Y-%m-%d"), for the years 0000..9999
format_ymd(date) ==
    Pad(date[1], 4) \o <<"-">> \o Pad(date[2], 2) \o <<"-">> \o Pad(date[3], 2)

(***************************************************************************)
(* Item                                                                    *)
(***************************************************************************)
\* the priority '\0' of an item without priority
NUL == "NUL"

\* Item::new
new ==
    [line_number |-> 0, completion |-> FALSE, priority |-> NUL,
     completion_date |-> None, creation_date |-> None, description |-> <<>>,
     _importance |-> <<>>, _due_date |-> <<>>, _start_date |-> <<>>,
     _urgency |-> <<>>, _tshirt_size |-> <<>>, _tags |-> <<>>,
     _contexts |-> <<>>, _kv |-> <<>>]

\* the ends q of a run \s+ that starts at p (the run is s[p..q-1])
WsEnds(s, p) ==
    {q \in (p + 1)..(Len(s) + 1) : \A k \in p..(q - 1) : IsSpace(s[k])}

\* ( x \s+ )
G_x(s, p) ==
    IF p <= Len(s) /\ s[p] = "x" THEN WsEnds(s, p + 1) ELSE {}

\* ( [(] [A-Z] [)] \s+ )
G_priority(s, p) ==
    IF /\ p + 2 <= Len(s)
       /\ s[p] = "(" /\ s[p + 1] \in UpperAZ /\ s[p + 2] = ")"
    THEN WsEnds(s, p + 3) ELSE {}

\* ( \d{4} - \d{2} - \d{2} \s+ )
G_date(s, p) ==
    IF /\ p + 9 <= Len(s)
       /\ \A k \in {0, 1, 2, 3, 5, 6, 8, 9} : IsDigit(s[p + k])
       /\ s[p + 4] = "-" /\ s[p + 7] = "-"
    THEN WsEnds(s, p + 10) ELSE {}

\* ( .+ ) $
G_description(s, p) == p <= Len(s) /\ \A k \in p..Len(s) : s[k] # "\n"

\* an optional group: present (ending at some q > p) or absent (ending at p)
Optional(ends, p) == ends \cup {p}

\* the order in which the matcher tries the alternatives: a greedy optional
\* group is tried present before absent and with the longest \s+ first
Preferred(t, u) ==
    \/ t = u
    \/ \E k \in 1..4 : t[k] > u[k] /\ \A j \in 1..(k - 1) : t[j] = u[j]

Max(S) == CHOOSE m \in S : \A n \in S : m >= n

\* a matcher that never gives back what an optional group has taken
RE_TADA_ITEM_possessive(s) ==
    LET a == Max(Optional(G_x(s, 1), 1))
        b == Max(Optional(G_priority(s, a), a))
        c == Max(Optional(G_date(s, b), b))
        d == Max(Optional(G_date(s, c), c))
    IN  IF G_description(s, d) THEN Some(<<a, b, c, d>>) ELSE None

\* RE_TADA_ITEM.captures(text): the ends of groups 1 to 4 of the first
\* alternative that lets the description group match up to the end
RE_TADA_ITEM(s) ==
    LET all ==
          UNION {UNION {UNION {
              {<<a, b, c, d>> :
                   d \in {dd \in Optional(G_date(s, c), c) :
                              G_description(s, dd)}} :
              c \in Optional(G_date(s, b), b)} :
              b \in Optional(G_priority(s, a), a)} :
              a \in Optional(G_x(s, 1), 1)}
    IN  IF all = {} THEN None
        ELSE Some(CHOOSE t \in all : \A u \in all : Preferred(t, u))

\* the completion_date slot of Item::parse; e holds the ends of groups 1..4
parse_completion_date(s, e) ==
    IF e[3] > e[2] /\ e[4] > e[3]
    THEN parse_from_str(trim(Slice(s, e[2], e[3])))
    ELSE None

\* a creation_date slot that forgets the lone date
parse_creation_date_paired_only(s, e) ==
    IF e[3] > e[2] /\ e[4] > e[3]
    THEN parse_from_str(trim(Slice(s, e[3], e[4])))
    ELSE None

\* the creation_date slot of Item::parse
parse_creation_date(s, e) ==
    IF e[3] > e[2] /\ e[4] > e[3]
    THEN parse_from_str(trim(Slice(s, e[3], e[4])))
    ELSE IF e[3] > e[2]
         THEN parse_from_str(trim(Slice(s, e[2], e[3])))
         ELSE None

\* Item::parse; <<>> stands for the panic of captures(text).unwrap()
parse(s) ==
    LET caps == RE_TADA_ITEM(s)
    IN  IF caps = None THEN <<>>
        ELSE LET e == Unwrap(caps)
             IN  <<[new EXCEPT
                      !.completion = e[1] > 1,
                      !.priority = IF e[2] > e[1] THEN s[e[1] + 1] ELSE NUL,
                      !.completion_date = parse_completion_date(s, e),
                      !.creation_date = parse_creation_date(s, e),
                      !.description = trim(Slice(s, e[4], Len(s) + 1))]>>

\* impl fmt::Display for Item
Display(i) ==
    (IF i.completion THEN <<"x", " ">> ELSE <<>>)
    \o (IF i.priority # NUL THEN <<"(", i.priority, ")", " ">> ELSE <<>>)
    \o (IF i.completion /\ IsSome(i.completion_date)
        THEN format_ymd(Unwrap(i.completion_date)) \o <<" ">> ELSE <<>>)
    \o (IF IsSome(i.creation_date)
        THEN format_ymd(Unwrap(i.creation_date)) \o <<" ">> ELSE <<>>)
    \o i.description

(***************************************************************************)
(* Line (src/list.rs)                                                      *)
(***************************************************************************)
\* RE_LINE_BLANK: ^\s*$
RE_LINE_BLANK(s) == \A k \in 1..Len(s) : IsSpace(s[k])

\* RE_LINE_COMMENT: ^\s*#
RE_LINE_COMMENT(s) ==
    \E k \in 1..Len(s) : s[k] = "#" /\ \A j \in 1..(k - 1) : IsSpace(s[j])

\* Line::from_string; <<>> stands for the panic of Item::parse
from_string(s, num) ==
    IF RE_LINE_BLANK(s)
    THEN <<[kind |-> "Blank", text |-> s, item |-> None, num |-> num]>>
    ELSE IF RE_LINE_COMMENT(s)
    THEN <<[kind |-> "Comment", text |-> s, item |-> None, num |-> num]>>
    ELSE IF parse(s) = <<>> THEN <<>>
    ELSE <<[kind |-> "Item", text |-> s,
            item |-> Some([parse(s)[1] EXCEPT !.line_number = num]),
            num |-> num]>>

(***************************************************************************)
(* Parsing and rendering: the lines and the records fed to Item::parse,    *)
(* Line::from_string and Display                                           *)
(***************************************************************************)
\* the longest run of blanks between two fields of a generated line
MaxSpaces == 2

Spaces(k) == [j \in 1..k |-> " "]

T_foo == <<"f", "o", "o">>
T_A_foo == <<"(", "A", ")", " ", "f", "o", "o">>
T_x_foo == <<"x", " ", "f", "o", "o">>
T_sp_foo == <<" ", "f", "o", "o">>
T_hash == <<"#", " ", "c">>
T_tab_foo == <<"\t", "f", "o", "o">>
T_date_foo == <<"2", "0", "1", "0", "-", "0", "1", "-", "0", "1", " ",
                "f", "o", "o">>

\* calendar dates used in the positional slots
SlotDates == {<<2010, 1, 1>>, <<2000, 12, 31>>}

\* tokens of the shape \d{4}-\d{2}-\d{2} that are no calendar date
BadDateTokens ==
    {<<"2", "0", "1", "0", "-", "1", "3", "-", "4", "5">>,
     <<"2", "0", "0", "1", "-", "0", "2", "-", "3", "0">>}

SlotPriorities == {"B"}

\* descriptions that start with nothing the positional grammar could take
PlainDescs == {T_foo}

XParts == {<<>>} \cup {<<"x">> \o Spaces(k) : k \in 1..MaxSpaces}

PParts ==
    {<<>>} \cup {<<"(", p, ")">> \o Spaces(k) :
                     p \in SlotPriorities, k \in 1..MaxSpaces}

DParts ==
    {<<>>} \cup {tok \o Spaces(k) :
                     tok \in {format_ymd(d) : d \in SlotDates}
                                 \cup BadDateTokens,
                     k \in 1..MaxSpaces}

DescParts == {T_foo, T_A_foo, <<>>, <<" ">>}

Lines ==
    {x \o p \o d1 \o d2 \o desc :
         x \in XParts, p \in PParts, d1 \in DParts, d2 \in DParts,
         desc \in DescParts}
    \cup {<<"x">>, <<"(", "A", ")">>, T_hash, T_tab_foo, T_sp_foo}

\* records built field by field, as a caller of the library can build them
BuiltItems ==
    {[new EXCEPT !.completion = c, !.priority = p, !.completion_date = cd,
                 !.creation_date = cr, !.description = desc] :
         c \in BOOLEAN, p \in {NUL} \cup SlotPriorities,
         cd \in {None} \cup {Some(d) : d \in SlotDates},
         cr \in {None} \cup {Some(d) : d \in SlotDates},
         desc \in PlainDescs \cup {<<>>, T_A_foo, T_x_foo, T_sp_foo,
                                   T_date_foo}}

InitialToday == <<2024, 1, 15>>

\* the input is drawn first: a line of text, or a record built by a caller
InitParse ==
    /\ files = <<>>
    /\ today = InitialToday
    /\ wasInit = {}
    /\ parsed = <<>>
    /\ ret = <<>>
    /\ arg = <<>>
    /\ list = <<>>
    /\ \/ text \in Lines /\ item = new /\ lastOp = "text"
       \/ text = <<>> /\ item \in BuiltItems /\ lastOp = "built"

\* Item::parse(text)
ParseText ==
    /\ lastOp = "text"
    /\ parsed' = parse(text)
    /\ lastOp' = "parse"
    /\ UNCHANGED <<files, arg, list, today, item, wasInit, text, ret>>

\* Line::from_string(text, n)
LineFromString ==
    /\ lastOp = "text"
    /\ \E n \in 1..2 : ret' = from_string(text, n)
    /\ lastOp' = "from_string"
    /\ UNCHANGED <<files, arg, list, today, item, wasInit, text, parsed>>

\* Item::parse(&format!("{}", item)) for a record built by construction
DisplayThenParse ==
    /\ lastOp = "built"
    /\ text' = Display(item)
    /\ parsed' = parse(Display(item))
    /\ lastOp' = "display_parse"
    /\ UNCHANGED <<files, arg, list, today, item, wasInit, ret>>

NextParse == ParseText \/ LineFromString \/ DisplayThenParse

SpecParse == InitParse /\ [][NextParse]_vars

\* does pat occur somewhere in s
Contains(s, pat) == \E q \in 1..(Len(s) + 1) : OccursAt(s, pat, q)

\* C4: for every record built by construction, rendering it with Display
\* and parsing the rendered line gives back the same completion, priority,
\* completion_date, creation_date and description.
C4_RoundTrip ==
    lastOp = "display_parse" =>
        /\ parsed # <<>>
        /\ parsed[1].completion = item.completion
        /\ parsed[1].priority = item.priority
        /\ parsed[1].completion_date = item.completion_date
        /\ parsed[1].creation_date = item.creation_date
        /\ parsed[1].description = item.description

\* the leading markers of a generated line, with the fields they stand for
Markers ==
    {[txt |-> x \o p, completion |-> x # <<>>,
      priority |-> IF p = <<>> THEN NUL ELSE p[2]] :
         x \in XParts, p \in PParts}

\* C5: two date tokens after the optional markers are completion_date and
\* creation_date in that order; a single date token is creation_date and
\* completion_date is none, also after the completion marker x; a priority
\* marker that follows a date stays in the description.
C5_DateSlots ==
    lastOp = "parse" =>
        \A m \in Markers, d1 \in SlotDates, k1 \in 1..MaxSpaces :
            /\ \A d2 \in SlotDates, k2 \in 1..MaxSpaces, desc \in PlainDescs :
                   text = m.txt \o format_ymd(d1) \o Spaces(k1)
                              \o format_ymd(d2) \o Spaces(k2) \o desc
                   => /\ parsed # <<>>
                      /\ parsed[1].completion = m.completion
                      /\ parsed[1].priority = m.priority
                      /\ parsed[1].completion_date = Some(d1)
                      /\ parsed[1].creation_date = Some(d2)
                      /\ parsed[1].description = desc
            /\ \A desc \in PlainDescs \cup {T_A_foo} :
                   text = m.txt \o format_ymd(d1) \o Spaces(k1) \o desc
                   => /\ parsed # <<>>
                      /\ parsed[1].completion = m.completion
                      /\ parsed[1].priority = m.priority
                      /\ parsed[1].completion_date = None
                      /\ parsed[1].creation_date = Some(d1)
                      /\ parsed[1].description = desc

\* a completed line with a single date and a priority marker after it
C5_Witness ==
    /\ lastOp = "parse"
    /\ text = <<"x", " ">> \o format_ymd(<<2010, 1, 1>>) \o <<" ">> \o T_A_foo
    /\ parsed # <<>>
    /\ parsed[1].completion
    /\ parsed[1].priority = NUL
    /\ parsed[1].completion_date = None
    /\ parsed[1].creation_date = Some(<<2010, 1, 1>>)
    /\ parsed[1].description = T_A_foo

\* C6: a token of the shape YYYY-MM-DD in a date slot that is no calendar
\* date leaves the date fields none and its text is kept, in the description.
C6_BadDateFallsThrough ==
    lastOp = "parse" =>
        \A m \in Markers, bad \in BadDateTokens, k \in 1..MaxSpaces,
           desc \in PlainDescs :
            text = m.txt \o bad \o Spaces(k) \o desc
            => /\ parsed # <<>>
               /\ parsed[1].completion_date = None
               /\ parsed[1].creation_date = None
               /\ Contains(parsed[1].description, bad)

\* C7: Item::parse returns a record for every non-empty single line, and so
\* does Line::from_string for every line that is neither blank nor comment.
C7_ParseTotal ==
    /\ lastOp = "parse" /\ text # <<>> => parsed # <<>>
    /\ lastOp = "from_string" =>
           /\ ret # <<>>
           /\ ret[1].kind = "Item" <=> IsSome(ret[1].item)

\* the marker x followed by blanks only: the matcher has to give the
\* marker back to find a description
C7_Witness ==
    /\ lastOp = "parse"
    /\ text = <<"x", " ">>
    /\ parsed # <<>>
    /\ parsed[1].description = <<"x">>

(***************************************************************************)
(* Derived fields (src/item.rs)                                            *)
(***************************************************************************)
\* an Importance::from_char that knows the five letters only
from_char_five_letters(c) ==
    CASE c = "A" -> Some("A")
      [] c = "B" -> Some("B")
      [] c = "C" -> Some("C")
      [] c = "D" -> Some("D")
      [] c = "E" -> Some("E")
      [] OTHER -> None

\* Importance::from_char
from_char(c) ==
    CASE c = "A" -> Some("A")
      [] c = "B" -> Some("B")
      [] c = "C" -> Some("C")
      [] c = "D" -> Some("D")
      [] c \in UpperAZ \ {"A", "B", "C", "D"} -> Some("E")
      [] OTHER -> None

\* Importance::to_string
Importance_to_string(i) ==
    CASE i = "A" -> "Critical"
      [] i = "B" -> "Important"
      [] i = "C" -> "Semi-important"
      [] i = "D" -> "Normal"
      [] i = "E" -> "Unimportant"

\* the lazy statics, all taken from the one snapshot of the clock
DATE_TODAY == today

DATE_SOON_tomorrow == AddDays(today, 1)

DATE_SOON == AddDays(today, 2)

DATE_WEEKEND == week_last_day(today)

\* the end of last week
DATE_NEXT_WEEKEND_last_week == AddDays(week_last_day(today), -7)

DATE_NEXT_WEEKEND == AddDays(week_last_day(today), 7)

DATE_NEXT_MONTH ==
    pred(Unwrap(CASE today[2] = 11 -> from_ymd_opt(today[1] + 1, 1, 1)
                  [] today[2] = 12 -> from_ymd_opt(today[1] + 1, 2, 1)
                  [] OTHER -> from_ymd_opt(today[1], today[2] + 2, 1)))

\* Urgency::from_due_date
from_due_date(due) ==
    IF DateLt(due, DATE_TODAY) THEN "Overdue"
    ELSE IF due = DATE_TODAY THEN "Today"
    ELSE IF DateLe(due, DATE_SOON) THEN "Soon"
    ELSE IF DateLe(due, DATE_WEEKEND) THEN "ThisWeek"
    ELSE IF DateLe(due, DATE_NEXT_WEEKEND) THEN "NextWeek"
    ELSE IF DateLe(due, DATE_NEXT_MONTH) THEN "NextMonth"
    ELSE "Later"

\* the end of the run \S+ that starts at p: the first blank at or after p
RECURSIVE NonSpaceEnd(_, _)
NonSpaceEnd(s, p) ==
    IF p > Len(s) \/ IsSpace(s[p]) THEN p ELSE NonSpaceEnd(s, p + 1)

\* (?:^|\s) mk (\S+) tried at q: the position of the capture, or 0
SigilAt(s, mk, q) ==
    LET a == IF q = 1 /\ s[1] = mk THEN 2
             ELSE IF IsSpace(s[q]) /\ q + 1 <= Len(s) /\ s[q + 1] = mk
                  THEN q + 2 ELSE 0
    IN  IF a # 0 /\ a <= Len(s) /\ ~IsSpace(s[a]) THEN a ELSE 0

\* captures_iter of RE_TAG (mk = "+") and RE_CONTEXT (mk = "@") from p on
RECURSIVE SigilCaptures(_, _, _)
SigilCaptures(s, mk, p) ==
    IF \A q \in p..Len(s) : SigilAt(s, mk, q) = 0 THEN <<>>
    ELSE LET q == CHOOSE qq \in p..Len(s) :
                      /\ SigilAt(s, mk, qq) # 0
                      /\ \A j \in p..(qq - 1) : SigilAt(s, mk, j) = 0
             a == SigilAt(s, mk, q)
             e == NonSpaceEnd(s, a)
         IN  <<Slice(s, a, e)>> \o SigilCaptures(s, mk, e)

IsKvChar(c) == ~IsSpace(c) /\ c # ":"

\* the end of the run [^\s:]+ that starts at p
RECURSIVE KvRunEnd(_, _)
KvRunEnd(s, p) ==
    IF p > Len(s) \/ ~IsKvChar(s[p]) THEN p ELSE KvRunEnd(s, p + 1)

\* RE_KV tried at q: the key is the whole run up to a colon, and a value
\* character has to follow the colon
KvAt(s, q) ==
    LET r == KvRunEnd(s, q)
    IN  r > q /\ r + 1 <= Len(s) /\ s[r] = ":" /\ IsKvChar(s[r + 1])

\* HashMap::insert
Insert(map, k, v) ==
    [x \in DOMAIN map \cup {k} |-> IF x = k THEN v ELSE map[x]]

\* the loop of _build_kv over RE_KV.captures_iter from p on
RECURSIVE KvCaptures(_, _, _)
KvCaptures(s, p, map) ==
    IF \A q \in p..Len(s) : ~KvAt(s, q) THEN map
    ELSE LET q == CHOOSE qq \in p..Len(s) :
                      KvAt(s, qq) /\ \A j \in p..(qq - 1) : ~KvAt(s, j)
             r == KvRunEnd(s, q)
             e == KvRunEnd(s, r + 1)
         IN  KvCaptures(s, e, Insert(map, Slice(s, q, r), Slice(s, r + 1, e)))

EmptyMap == [x \in {} |-> <<>>]

\* HashMap::get
Get(map, k) == IF k \in DOMAIN map THEN Some(map[k]) ELSE None

K_due == <<"d", "u", "e">>
K_start == <<"s", "t", "a", "r", "t">>

_build_kv(i) == KvCaptures(i.description, 1, EmptyMap)

_build_tags(i) == SigilCaptures(i.description, "+", 1)

_build_contexts(i) == SigilCaptures(i.description, "@", 1)

_build_importance(i) == from_char(i.priority)

\* Item::kv: the value returned, and the record once the cache is filled
kv(i) == IF i._kv = <<>> THEN _build_kv(i) ELSE i._kv[1]
kv_read(i) == [i EXCEPT !._kv = <<kv(i)>>]

\* Item::tags
tags(i) == IF i._tags = <<>> THEN _build_tags(i) ELSE i._tags[1]
tags_read(i) == [i EXCEPT !._tags = <<tags(i)>>]

\* Item::contexts
contexts(i) == IF i._contexts = <<>> THEN _build_contexts(i) ELSE i._contexts[1]
contexts_read(i) == [i EXCEPT !._contexts = <<contexts(i)>>]

\* Item::importance
importance(i) ==
    IF i._importance = <<>> THEN _build_importance(i) ELSE i._importance[1]
importance_read(i) == [i EXCEPT !._importance = <<importance(i)>>]

\* _build_due_date and _build_start_date read kv() and fill its cache
_build_due_date(i) ==
    IF IsSome(Get(kv(i), K_due)) THEN parse_from_str(kv(i)[K_due]) ELSE None

_build_start_date(i) ==
    IF IsSome(Get(kv(i), K_start)) THEN parse_from_str(kv(i)[K_start])
    ELSE None

\* Item::due_date
due_date(i) ==
    IF i._due_date = <<>> THEN _build_due_date(i) ELSE i._due_date[1]
due_date_read(i) ==
    IF i._due_date = <<>>
    THEN [kv_read(i) EXCEPT !._due_date = <<_build_due_date(i)>>]
    ELSE i

\* Item::start_date
start_date(i) ==
    IF i._start_date = <<>> THEN _build_start_date(i) ELSE i._start_date[1]
start_date_read(i) ==
    IF i._start_date = <<>>
    THEN [kv_read(i) EXCEPT !._start_date = <<_build_start_date(i)>>]
    ELSE i

\* Item::is_startable
is_startable(i) ==
    IF IsSome(start_date(i)) THEN DateLe(Unwrap(start_date(i)), DATE_TODAY)
    ELSE TRUE

\* _build_urgency reads due_date()
_build_urgency(i) ==
    IF IsSome(due_date(i)) THEN Some(from_due_date(Unwrap(due_date(i))))
    ELSE None

\* Item::urgency
urgency(i) == IF i._urgency = <<>> THEN _build_urgency(i) ELSE i._urgency[1]
urgency_read(i) ==
    IF i._urgency = <<>>
    THEN [due_date_read(i) EXCEPT !._urgency = <<_build_urgency(i)>>]
    ELSE i

\* RE_SMALL, RE_MEDIUM, RE_LARGE: (?i)^X*S$ with the letter S, M or L
RE_SIZE(letter, c) ==
    /\ Len(c) >= 1
    /\ c[Len(c)] \in {letter, to_lowercase_char(letter)}
    /\ \A k \in 1..(Len(c) - 1) : c[k] \in {"X", "x"}

\* a size taken from the first context that names any size
_build_tshirt_size_first_context(i) ==
    LET ctx == contexts(i)
        hits == {k \in 1..Len(ctx) :
                     \E l \in {"S", "M", "L"} : RE_SIZE(l, ctx[k])}
    IN  IF hits = {} THEN None
        ELSE LET c == ctx[CHOOSE k \in hits : \A j \in hits : k <= j]
             IN  IF RE_SIZE("S", c) THEN Some("Small")
                 ELSE IF RE_SIZE("M", c) THEN Some("Medium")
                 ELSE Some("Large")

\* _build_tshirt_size reads contexts()
_build_tshirt_size(i) ==
    LET ctx == contexts(i)
    IN  IF \E k \in 1..Len(ctx) : RE_SIZE("S", ctx[k]) THEN Some("Small")
        ELSE IF \E k \in 1..Len(ctx) : RE_SIZE("M", ctx[k])
             THEN Some("Medium")
        ELSE IF \E k \in 1..Len(ctx) : RE_SIZE("L", ctx[k])
             THEN Some("Large")
        ELSE None

\* Item::tshirt_size
tshirt_size(i) ==
    IF i._tshirt_size = <<>> THEN _build_tshirt_size(i) ELSE i._tshirt_size[1]
tshirt_size_read(i) ==
    IF i._tshirt_size = <<>>
    THEN [contexts_read(i) EXCEPT !._tshirt_size = <<_build_tshirt_size(i)>>]
    ELSE i

\* Item::has_context, for a name without the leading @
has_context(i, ctx) ==
    LET real_ctx == IF Len(ctx) >= 1 /\ ctx[1] = "@" THEN Tail(ctx) ELSE ctx
    IN  \E k \in 1..Len(contexts(i)) :
            to_lowercase(contexts(i)[k]) = to_lowercase(real_ctx)

\* Item::has_tag
has_tag(i, tag) ==
    LET real_tag == IF Len(tag) >= 1 /\ tag[1] = "+" THEN Tail(tag) ELSE tag
    IN  \E k \in 1..Len(tags(i)) :
            to_lowercase(tags(i)[k]) = to_lowercase(real_tag)

(***************************************************************************)
(* Derived fields of a parsed line: importance, urgency and size           *)
(***************************************************************************)
\* the due dates tried run from PastDays before today to MaxDueOffset after
PastDays == 3
MaxDueOffset == 70

DueOffsets == (0 - PastDays)..MaxDueOffset

\* a Monday-to-Sunday week in November, and days in December, January (before
\* a leap February and before a common one), February, October and July
Todays ==
    {<<2023, 11, 6>>, <<2023, 11, 7>>, <<2023, 11, 8>>, <<2023, 11, 9>>,
     <<2023, 11, 10>>, <<2023, 11, 11>>, <<2023, 11, 12>>, <<2023, 12, 30>>,
     <<2024, 1, 15>>, <<2025, 1, 30>>, <<2024, 2, 29>>, <<2024, 10, 31>>,
     <<2024, 7, 1>>}

T_due == <<" ", "d", "u", "e", ":">>

DueDesc(d) == <<"t">> \o T_due \o format_ymd(d)

\* descriptions without a due: value that parses
NoDueDescs ==
    {<<"t">>, <<"t", " ", "d", "u", "e", ":", "t", "o", "m", "o", "r", "r", "o", "w">>, <<"t", " ", "d", "u", "e", ":", "2", "0", "2", "4", "-", "0", "2", "-", "3", "0">>, <<"t", " ", "d", "u", "e", ":", " ", "2", "0", "2", "4", "-", "0", "3", "-", "0", "1">>,
     <<"t", " ", "o", "v", "e", "r", "d", "u", "e">>}

PriorityLines ==
    {<<"(", p, ")", " ", "t">> : p \in UpperAZ} \cup {<<"t">>, <<"(", "a", ")", " ", "t">>}

ContextLines ==
    {<<"t", " ", "@", "S">>, <<"t", " ", "@", "M">>, <<"t", " ", "@", "L">>, <<"@", "S", " ", "t", " ", "@", "L">>, <<"@", "L", " ", "t", " ", "@", "S">>, <<"@", "M", " ", "@", "S">>,
     <<"@", "L", " ", "@", "M">>, <<"@", "M", " ", "@", "L">>, <<"@", "x", "x", "l", " ", "t">>, <<"@", "X", "s", " ", "@", "l">>, <<"@", "l", " ", "@", "x", "M">>, <<"@", "s", "x", " ", "t">>,
     <<"t", "@", "S">>, <<"@", "h", "o", "m", "e", " ", "t">>, <<"@", "L", " ", "@", "h", "o", "m", "e", " ", "@", "m", " ", "@", "X", "X", "S">>, <<"@", " ", "S">>}

DeriveLines(T) ==
    {DueDesc(AddDays(T, off)) : off \in DueOffsets}
        \cup NoDueDescs \cup PriorityLines \cup ContextLines

InitDerive ==
    /\ files = <<>>
    /\ today \in Todays
    /\ text \in DeriveLines(today)
    /\ item = parse(text)[1]
    /\ lastOp = "parsed"
    /\ wasInit = {}
    /\ parsed = <<>>
    /\ ret = <<>>
    /\ arg = <<>>
    /\ list = <<>>

\* item.importance()
Importance ==
    /\ lastOp = "parsed"
    /\ ret' = importance(item)
    /\ item' = importance_read(item)
    /\ lastOp' = "importance"
    /\ UNCHANGED <<files, arg, list, today, wasInit, text, parsed>>

\* item.urgency()
Urgency ==
    /\ lastOp = "parsed"
    /\ ret' = urgency(item)
    /\ item' = urgency_read(item)
    /\ lastOp' = "urgency"
    /\ UNCHANGED <<files, arg, list, today, wasInit, text, parsed>>

\* item.tshirt_size()
TshirtSize ==
    /\ lastOp = "parsed"
    /\ ret' = tshirt_size(item)
    /\ item' = tshirt_size_read(item)
    /\ lastOp' = "tshirt_size"
    /\ UNCHANGED <<files, arg, list, today, wasInit, text, parsed>>

NextDerive == Importance \/ Urgency \/ TshirtSize

SpecDerive == InitDerive /\ [][NextDerive]_vars

\* C8: importance() is Critical for A, Important for B, Semi-important for
\* C, Normal for D, Unimportant for every letter E to Z, and none for an
\* item without priority.
C8_ImportanceMapping ==
    lastOp = "importance" =>
        /\ item.priority = NUL => ret = None
        /\ item.priority \in UpperAZ =>
               /\ IsSome(ret)
               /\ Importance_to_string(Unwrap(ret)) =
                      CASE item.priority = "A" -> "Critical"
                        [] item.priority = "B" -> "Important"
                        [] item.priority = "C" -> "Semi-important"
                        [] item.priority = "D" -> "Normal"
                        [] OTHER -> "Unimportant"

\* the importance of a (Z) item has been read
C8_Witness ==
    /\ lastOp = "importance"
    /\ item.priority = "Z"
    /\ ret = Some("E")
    /\ item._importance = <<Some("E")>>

\* Sundays counted from Sunday 2024-01-07
IsSunday(d) == (num_days_from_ce(d) - num_days_from_ce(<<2024, 1, 7>>)) % 7 = 0

\* the Sunday that ends the Monday-to-Sunday week of T
SundayOfWeek(T) ==
    CHOOSE d \in {AddDays(T, k) : k \in 0..6} : IsSunday(d)

\* the last day of the calendar month after the month of T
EndOfMonthAfter(T) ==
    LET ny == IF T[2] = 12 THEN T[1] + 1 ELSE T[1]
        nm == IF T[2] = 12 THEN 1 ELSE T[2] + 1
    IN  <<ny, nm, DaysInMonth(ny, nm)>>

\* the urgency the boundary table gives a due date
TableUrgency(T, due) ==
    LET t == num_days_from_ce(T)
        d == num_days_from_ce(due)
    IN  IF d < t THEN "Overdue"
        ELSE IF d = t THEN "Today"
        ELSE IF d <= t + 2 THEN "Soon"
        ELSE IF d <= num_days_from_ce(SundayOfWeek(T)) THEN "ThisWeek"
        ELSE IF d <= num_days_from_ce(SundayOfWeek(T)) + 7 THEN "NextWeek"
        ELSE IF d <= num_days_from_ce(EndOfMonthAfter(T)) THEN "NextMonth"
        ELSE "Later"

\* C9: with today T, a due date before T is Overdue, T is Today, up to T+2
\* Soon, then up to the Sunday of the current week ThisWeek, up to the
\* Sunday after it NextWeek, up to the last day of the next calendar month
\* NextMonth, and Later beyond; without a parseable due: value there is no
\* urgency.
C9_UrgencyBoundaries ==
    lastOp = "urgency" =>
        /\ \A off \in DueOffsets :
               item.description = DueDesc(AddDays(today, off))
               => ret = Some(TableUrgency(today, AddDays(today, off)))
        /\ item.description \in NoDueDescs => ret = None

\* on Saturday 2023-12-30 a task due 2024-01-31 is NextMonth
C9_Witness ==
    /\ lastOp = "urgency"
    /\ today = <<2023, 12, 30>>
    /\ item.description = DueDesc(<<2024, 1, 31>>)
    /\ ret = Some("NextMonth")

\* a context names size l: X*l, in either case
NamesSize(c, l) ==
    /\ Len(c) >= 1
    /\ to_lowercase(c) = [k \in 1..Len(c) |-> IF k = Len(c) THEN l ELSE "x"]

\* the contexts of a description as a set of whitespace-separated words
\* that start with @, without the @
ContextWords(s) ==
    {Slice(s, a + 1, b) : <<a, b>> \in
        {ab \in (1..Len(s)) \X (2..(Len(s) + 1)) :
            /\ ab[1] + 1 < ab[2]
            /\ s[ab[1]] = "@"
            /\ ab[1] = 1 \/ IsSpace(s[ab[1] - 1])
            /\ ab[2] = Len(s) + 1 \/ IsSpace(s[ab[2]])
            /\ \A k \in ab[1]..(ab[2] - 1) : ~IsSpace(s[k])}}

\* C10: tshirt_size() is Small if any context is X*S, else Medium if any is
\* X*M, else Large if any is X*L, else none, in whatever order the contexts
\* stand; with both @S and @L it is Small.
C10_SizeTieBreak ==
    lastOp = "tshirt_size" =>
        LET cs == ContextWords(item.description)
        IN  ret = IF \E c \in cs : NamesSize(c, "s") THEN Some("Small")
                  ELSE IF \E c \in cs : NamesSize(c, "m") THEN Some("Medium")
                  ELSE IF \E c \in cs : NamesSize(c, "l") THEN Some("Large")
                  ELSE None

\* a description with @L before @S
C10_Witness ==
    /\ lastOp = "tshirt_size"
    /\ item.description = <<"@", "L", " ", "t", " ", "@", "S">>
    /\ ret = Some("Small")

(***************************************************************************)
(* Setters and clone (src/item.rs)                                         *)
(***************************************************************************)
\* a clone that copies the caches with the fields
clone_with_caches(i) == i

\* impl Clone for Item: the raw fields, and caches as in Item::new
clone(i) ==
    [new EXCEPT !.line_number = i.line_number,
                !.completion = i.completion,
                !.priority = i.priority,
                !.completion_date = i.completion_date,
                !.creation_date = i.creation_date,
                !.description = i.description]

\* a set_description that leaves the urgency cache alone
set_description_keeps_urgency(i, x) ==
    [i EXCEPT !._importance = <<>>, !._due_date = <<>>,
              !._tshirt_size = <<>>, !._tags = <<>>, !._contexts = <<>>,
              !._kv = <<>>, !.description = x]

\* Item::set_description
set_description(i, x) ==
    [i EXCEPT !._importance = <<>>, !._due_date = <<>>, !._urgency = <<>>,
              !._tshirt_size = <<>>, !._tags = <<>>, !._contexts = <<>>,
              !._kv = <<>>, !.description = x]

\* Item::set_priority
set_priority(i, x) == [i EXCEPT !.priority = x]

\* Importance::to_char
to_char(imp) == imp

\* Item::set_importance
set_importance(i, imp) ==
    [i EXCEPT !.priority = to_char(imp), !._importance = <<>>]

\* Item::clear_importance
clear_importance(i) == [i EXCEPT !.priority = NUL, !._importance = <<>>]

\* the derived Ord of Urgency
UrgencyRank(u) ==
    CASE u = "Overdue" -> 0 [] u = "Today" -> 1 [] u = "Soon" -> 2
      [] u = "ThisWeek" -> 3 [] u = "NextWeek" -> 4 [] u = "NextMonth" -> 5
      [] u = "Later" -> 6

\* the days set_urgency adds to today for Later
LaterDays == 183

N_work == <<"w", "o", "r", "k">>
N_school == <<"s", "c", "h", "o", "o", "l">>
T_due_colon == <<"d", "u", "e", ":">>

\* set_urgency_date with a Sunday moved back one day only
set_urgency_date_sunday_to_saturday(i, urg) ==
    LET d == CASE urg = "Overdue" -> pred(DATE_TODAY)
               [] urg = "Today" -> DATE_TODAY
               [] urg = "Soon" -> DATE_SOON
               [] urg = "ThisWeek" -> DATE_WEEKEND
               [] urg = "NextWeek" -> DATE_NEXT_WEEKEND
               [] urg = "NextMonth" -> DATE_NEXT_MONTH
               [] urg = "Later" -> AddDays(DATE_TODAY, LaterDays)
    IN  IF /\ UrgencyRank(urg) > UrgencyRank("Today")
           /\ (has_context(i, N_work) \/ has_context(i, N_school))
        THEN CASE number_from_monday(d) = 6 -> pred(d)
               [] number_from_monday(d) = 7 -> pred(d)
               [] OTHER -> d
        ELSE d

\* the date set_urgency writes for urg
set_urgency_date(i, urg) ==
    LET d == CASE urg = "Overdue" -> pred(DATE_TODAY)
               [] urg = "Today" -> DATE_TODAY
               [] urg = "Soon" -> DATE_SOON
               [] urg = "ThisWeek" -> DATE_WEEKEND
               [] urg = "NextWeek" -> DATE_NEXT_WEEKEND
               [] urg = "NextMonth" -> DATE_NEXT_MONTH
               [] urg = "Later" -> AddDays(DATE_TODAY, LaterDays)
    IN  IF /\ UrgencyRank(urg) > UrgencyRank("Today")
           /\ (has_context(i, N_work) \/ has_context(i, N_school))
        THEN CASE number_from_monday(d) = 6 -> pred(d)
               [] number_from_monday(d) = 7 -> pred(pred(d))
               [] OTHER -> d
        ELSE d

\* set_urgency that leaves an existing due: value alone
set_urgency_keeps_due(i, urg) ==
    LET formatted == format_ymd(set_urgency_date(i, urg))
        j == IF UrgencyRank(urg) > UrgencyRank("Today")
             THEN kv_read(contexts_read(i)) ELSE kv_read(i)
    IN  IF IsSome(Get(kv(i), K_due))
        THEN set_description(j, i.description)
        ELSE set_description(j, i.description \o T_due \o formatted)

\* Item::set_urgency; has_context and kv fill their caches before
\* set_description clears them
set_urgency(i, urg) ==
    LET formatted == format_ymd(set_urgency_date(i, urg))
        j == IF UrgencyRank(urg) > UrgencyRank("Today")
             THEN kv_read(contexts_read(i)) ELSE kv_read(i)
    IN  IF IsSome(Get(kv(i), K_due))
        THEN set_description(j, replace(i.description,
                                        T_due_colon \o kv(i)[K_due],
                                        T_due_colon \o formatted))
        ELSE set_description(j, i.description \o T_due \o formatted)

(***************************************************************************)
(* One record under reads of the derived fields and calls of the setters   *)
(***************************************************************************)
CacheNames ==
    {"_importance", "_due_date", "_start_date", "_urgency", "_tshirt_size",
     "_tags", "_contexts", "_kv"}

\* the caches of i that are initialized
Initialized(i) == {c \in CacheNames : i[c] # <<>>}

D_a == <<"a", " ", "@", "S", " ", "+", "p", " ", "d", "u", "e", ":", "2", "0", "2", "4", "-", "0", "1", "-", "1", "6", " ", "s", "t", "a", "r", "t", ":", "2", "0", "2", "4", "-", "0", "1", "-", "1", "0">>
D_b == <<"b", " ", "@", "L", " ", "+", "q", " ", "@", "w", "o", "r", "k", " ", "k", ":", "v", " ", "d", "u", "e", ":", "2", "0", "2", "4", "-", "0", "3", "-", "2", "0", " ", "s", "t", "a", "r", "t", ":", "2", "0", "2", "4", "-", "0", "2", "-", "0", "1">>
D_c == <<"c">>

ItemDescs == {D_a, D_b, D_c}
ItemPriorities == {NUL, "B"}
ItemImportances == {"A"}
ItemUrgencies == {"Today", "NextWeek"}

Init ==
    /\ files = <<>>
    /\ today = InitialToday
    /\ \E l \in {<<"(", "A", ")", " ">> \o D_a, D_c} :
           /\ text = l
           /\ item = parse(l)[1]
    /\ lastOp = "parse"
    /\ wasInit = {}
    /\ parsed = <<>>
    /\ ret = <<>>
    /\ arg = <<>>
    /\ list = <<>>

\* A call of an accessor leaves the record with the cache filled.  A call of
\* a setter records in wasInit which caches were filled before it.

\* item.importance()
ReadImportance ==
    /\ item' = importance_read(item)
    /\ lastOp' = "read"
    /\ wasInit' = {}
    /\ UNCHANGED <<files, arg, list, today, text, parsed, ret>>

\* item.due_date()
ReadDueDate ==
    /\ item' = due_date_read(item)
    /\ lastOp' = "read"
    /\ wasInit' = {}
    /\ UNCHANGED <<files, arg, list, today, text, parsed, ret>>

\* item.start_date()
ReadStartDate ==
    /\ item' = start_date_read(item)
    /\ lastOp' = "read"
    /\ wasInit' = {}
    /\ UNCHANGED <<files, arg, list, today, text, parsed, ret>>

\* item.urgency()
ReadUrgency ==
    /\ item' = urgency_read(item)
    /\ lastOp' = "read"
    /\ wasInit' = {}
    /\ UNCHANGED <<files, arg, list, today, text, parsed, ret>>

\* item.tshirt_size()
ReadTshirtSize ==
    /\ item' = tshirt_size_read(item)
    /\ lastOp' = "read"
    /\ wasInit' = {}
    /\ UNCHANGED <<files, arg, list, today, text, parsed, ret>>

\* item.tags()
ReadTags ==
    /\ item' = tags_read(item)
    /\ lastOp' = "read"
    /\ wasInit' = {}
    /\ UNCHANGED <<files, arg, list, today, text, parsed, ret>>

\* item.contexts()
ReadContexts ==
    /\ item' = contexts_read(item)
    /\ lastOp' = "read"
    /\ wasInit' = {}
    /\ UNCHANGED <<files, arg, list, today, text, parsed, ret>>

\* item.kv()
ReadKv ==
    /\ item' = kv_read(item)
    /\ lastOp' = "read"
    /\ wasInit' = {}
    /\ UNCHANGED <<files, arg, list, today, text, parsed, ret>>

\* item.set_description(d)
SetDescription ==
    \E d \in ItemDescs :
        /\ item' = set_description(item, d)
        /\ lastOp' = "set_description"
        /\ wasInit' = Initialized(item)
        /\ UNCHANGED <<files, arg, list, today, text, parsed, ret>>

\* item.set_priority(p)
SetPriority ==
    \E p \in ItemPriorities :
        /\ item' = set_priority(item, p)
        /\ lastOp' = "set_priority"
        /\ wasInit' = Initialized(item)
        /\ UNCHANGED <<files, arg, list, today, text, parsed, ret>>

\* item.set_importance(imp)
SetImportance ==
    \E imp \in ItemImportances :
        /\ item' = set_importance(item, imp)
        /\ lastOp' = "set_importance"
        /\ wasInit' = Initialized(item)
        /\ UNCHANGED <<files, arg, list, today, text, parsed, ret>>

\* item.set_urgency(u)
SetUrgency ==
    \E u \in ItemUrgencies :
        /\ item' = set_urgency(item, u)
        /\ lastOp' = "set_urgency"
        /\ wasInit' = Initialized(item)
        /\ UNCHANGED <<files, arg, list, today, text, parsed, ret>>

\* item.clear_importance()
ClearImportance ==
    /\ item' = clear_importance(item)
    /\ lastOp' = "clear_importance"
    /\ wasInit' = Initialized(item)
    /\ UNCHANGED <<files, arg, list, today, text, parsed, ret>>

Next ==
    \/ ReadImportance \/ ReadDueDate \/ ReadStartDate \/ ReadUrgency
    \/ ReadTshirtSize \/ ReadTags \/ ReadContexts \/ ReadKv
    \/ SetDescription \/ SetPriority \/ SetImportance \/ ClearImportance
    \/ SetUrgency

Spec == Init /\ [][Next]_vars

\* C1: right after set_description(d), whatever was read and cached before,
\* importance, due_date, urgency, tshirt_size, tags, contexts and kv return
\* what a record without caches derives from d and the priority.
C1_FreshAfterSetDescription ==
    lastOp = "set_description" =>
        /\ importance(item) = importance(clone(item))
        /\ due_date(item) = due_date(clone(item))
        /\ urgency(item) = urgency(clone(item))
        /\ tshirt_size(item) = tshirt_size(clone(item))
        /\ tags(item) = tags(clone(item))
        /\ contexts(item) = contexts(clone(item))
        /\ kv(item) = kv(clone(item))

\* all seven caches were filled from D_a when the description became D_b
C1_Witness ==
    /\ lastOp = "set_description"
    /\ CacheNames \ {"_start_date"} \subseteq wasInit
    /\ item.description = D_b
    /\ urgency(item) = Some("Later")
    /\ tshirt_size(item) = Some("Large")

\* C2: after the description is set, directly or by set_urgency,
\* start_date() and is_startable() follow the start: token of the new
\* description.
C2_StartDateFresh ==
    lastOp \in {"set_description", "set_urgency"} =>
        /\ start_date(item) = start_date(clone(item))
        /\ is_startable(item) = is_startable(clone(item))

\* C3: in every state importance() is Importance::from_char(priority()).
C3_ImportanceFollowsPriority ==
    importance(item) = from_char(item.priority)

(***************************************************************************)
(* Operations that return a new record (src/item.rs)                       *)
(***************************************************************************)
\* a zen_urgency for which one of the two is enough for Soon
zen_urgency_either_is_soon(n) ==
    LET important == importance(n) \in {Some("A"), Some("B")}
        small == tshirt_size(n) = Some("Small")
    IN  IF important \/ small THEN "Soon" ELSE "NextMonth"

\* Item::zen: the new urgency of an overdue record
zen_urgency(n) ==
    LET important == importance(n) \in {Some("A"), Some("B")}
        small == tshirt_size(n) = Some("Small")
    IN  IF important /\ small THEN "Soon"
        ELSE IF important \/ small THEN "NextWeek"
        ELSE "NextMonth"

\* a zen that also reschedules what is due today
zen_from_today(i) ==
    IF urgency(i) \in {Some("Overdue"), Some("Today")}
    THEN set_urgency(tshirt_size_read(importance_read(clone(i))),
                     zen_urgency(clone(i)))
    ELSE clone(i)

\* Item::zen: the record returned
zen(i) ==
    IF urgency(i) = Some("Overdue")
    THEN set_urgency(tshirt_size_read(importance_read(clone(i))),
                     zen_urgency(clone(i)))
    ELSE clone(i)

\* Item::set_completion, set_completion_date, set_creation_date
set_completion(i, x) == [i EXCEPT !.completion = x]
set_completion_date(i, x) == [i EXCEPT !.completion_date = Some(x)]
set_creation_date(i, x) == [i EXCEPT !.creation_date = Some(x)]

\* a but_done that dates the creation whether or not a date is there
but_done_always_created_today(i, include_date) ==
    LET c == set_completion(clone(i), TRUE)
    IN  IF include_date
        THEN set_creation_date(set_completion_date(c, DATE_TODAY), DATE_TODAY)
        ELSE c

\* Item::but_done
but_done(i, include_date) ==
    LET c == set_completion(clone(i), TRUE)
    IN  IF include_date
        THEN LET cd == set_completion_date(c, DATE_TODAY)
             IN  IF cd.creation_date = None
                 THEN set_creation_date(cd, DATE_TODAY)
                 ELSE cd
        ELSE c

T_start_colon == <<"s", "t", "a", "r", "t", ":">>

\* the regex start:(?:[^\s:]+) of but_pull tried at p
RE_START_At(s, p) ==
    /\ OccursAt(s, T_start_colon, p)
    /\ p + Len(T_start_colon) <= Len(s)
    /\ IsKvChar(s[p + Len(T_start_colon)])

\* Regex::replace: the leftmost match only is replaced
re_replace(s, rep) ==
    LET ms == {p \in 1..Len(s) : RE_START_At(s, p)}
    IN  IF ms = {} THEN s
        ELSE LET p == CHOOSE q \in ms : \A r \in ms : q <= r
                 e == KvRunEnd(s, p + Len(T_start_colon))
             IN  Slice(s, 1, p) \o rep \o Slice(s, e, Len(s) + 1)

\* Item::but_pull
but_pull(i, new_urgency) ==
    LET n == set_urgency(clone(i), new_urgency)
        new_start == T_start_colon \o format_ymd(DATE_TODAY)
    IN  set_description(n, re_replace(n.description, new_start))

\* the phrases the natural-language date parser is asked about
NlPhrases == {<<"t", "o", "m", "o", "r", "r", "o", "w">>, <<"n", "e", "x", "t", " ", "w", "e", "e", "k">>, <<"b", "o", "g", "u", "s">>}

\* NaturalDateParser::parse (date_time_parser crate): understood is the set
\* of phrases the parser finds a date in
NaturalDateParser_parse(understood, s) ==
    IF s \in understood
    THEN Some(IF s = <<"n", "e", "x", "t", " ", "w", "e", "e", "k">> THEN AddDays(today, 7)
              ELSE AddDays(today, 1))
    ELSE None

\* a slot of fixup that puts today's date where the parser finds none
fixup_slot_always_rewrites(n, slot, understood) ==
    LET m == kv(n)
        r == kv_read(n)
    IN  IF slot \notin DOMAIN m THEN r
        ELSE IF parse_from_str(m[slot]) # None THEN r
        ELSE LET nd == NaturalDateParser_parse(
                           understood, replace(m[slot], <<"_">>, <<" ">>))
                 date == IF nd = None THEN today ELSE Unwrap(nd)
             IN  set_description(r,
                     replace(r.description, slot \o <<":">> \o m[slot],
                             slot \o <<":">> \o format_ymd(date)))

\* one turn of the loop of Item::fixup over the slots due and start
fixup_slot(n, slot, understood) ==
    LET m == kv(n)
        r == kv_read(n)
    IN  IF slot \notin DOMAIN m THEN r
        ELSE IF parse_from_str(m[slot]) # None THEN r
        ELSE LET nd == NaturalDateParser_parse(
                           understood, replace(m[slot], <<"_">>, <<" ">>))
             IN  IF nd = None THEN r
                 ELSE set_description(r,
                          replace(r.description, slot \o <<":">> \o m[slot],
                                  slot \o <<":">> \o format_ymd(Unwrap(nd))))

\* Item::fixup; the hints and notices go to the standard error stream
fixup(i, understood) ==
    tshirt_size_read(
        fixup_slot(fixup_slot(clone(i), K_due, understood),
                   K_start, understood))

(***************************************************************************)
(* One record under the operations that reschedule or copy it:             *)
(* set_urgency, zen, but_done, but_pull and clone (src/item.rs)            *)
(***************************************************************************)
Urgencies ==
    {"Overdue", "Today", "Soon", "ThisWeek", "NextWeek", "NextMonth", "Later"}

\* overdue tasks of each importance, with and without a size or a work
\* context
OverdueLines(T) ==
    {p \o <<"t">> \o c \o T_due \o format_ymd(pred(T)) :
        p \in {<<>>, <<"(", "A", ")", " ">>, <<"(", "B", ")", " ">>, <<"(", "C", ")", " ">>},
        c \in {<<>>, <<" ", "@", "S">>, <<" ", "@", "M">>, <<" ", "@", "x", "s", " ", "@", "w", "o", "r", "k">>}}

\* tasks due today or later, or without a due date
NotOverdueLines(T) ==
    {<<"(", "A", ")", " ", "t", " ", "@", "S">> \o T_due \o format_ymd(T),
     <<"(", "A", ")", " ", "t", " ", "@", "S">> \o T_due \o format_ymd(AddDays(T, 3)),
     <<"(", "A", ")", " ", "t", " ", "@", "S">>, <<"t">>}

ContextDueLines ==
    {<<"t", " ", "@", "w", "o", "r", "k">>, <<"t", " ", "@", "S", "c", "h", "o", "o", "l">>, <<"t", " ", "@", "w", "o", "r", "k", "s", "h", "o", "p">>, <<"@", "W", "O", "R", "K", " ", "t", " ", "d", "u", "e", ":", "2", "0", "2", "0", "-", "0", "1", "-", "0", "1">>,
     <<"t", " ", "d", "u", "e", ":", "2", "0", "2", "0", "-", "0", "1", "-", "0", "1">>, <<"t", " ", "d", "u", "e", ":", "x", " ", "d", "u", "e", ":", "2", "0", "2", "0", "-", "0", "1", "-", "0", "1">>, <<"d", "u", "e", ":", "a", "b", " ", "d", "u", "e", ":", "a">>,
     <<"t", " ", "o", "v", "e", "r", "d", "u", "e", ":", "2", "0", "2", "0", "-", "0", "1", "-", "0", "1">>}

DatedLines ==
    {<<"x", " ", "2", "0", "2", "0", "-", "0", "1", "-", "0", "2", " ", "2", "0", "1", "9", "-", "0", "1", "-", "0", "1", " ", "t">>, <<"2", "0", "1", "9", "-", "0", "1", "-", "0", "1", " ", "t">>, <<"(", "A", ")", " ", "2", "0", "1", "9", "-", "0", "1", "-", "0", "1", " ", "t">>,
     <<"x", " ", "t">>, <<"x", " ", "2", "0", "2", "0", "-", "0", "1", "-", "0", "2", " ", "t">>}

StartLines ==
    {<<"t", " ", "s", "t", "a", "r", "t", ":", "2", "9", "9", "9", "-", "0", "1", "-", "0", "1">>, <<"t", " ", "s", "t", "a", "r", "t", ":", "2", "9", "9", "9", "-", "0", "1", "-", "0", "1", " ", "s", "t", "a", "r", "t", ":", "2", "9", "9", "9", "-", "0", "2", "-", "0", "2">>,
     <<"r", "e", "s", "t", "a", "r", "t", ":", "x", " ", "t", " ", "s", "t", "a", "r", "t", ":", "2", "9", "9", "9", "-", "0", "1", "-", "0", "1">>,
     <<"t", " ", "s", "t", "a", "r", "t", ":", "2", "9", "9", "9", "-", "0", "1", "-", "0", "1", " ", "d", "u", "e", ":", "2", "0", "2", "0", "-", "0", "1", "-", "0", "1", " ", "@", "w", "o", "r", "k">>, <<"t", " ", "s", "t", "a", "r", "t", ":", "s", "o", "o", "n">>}

\* tasks whose due: or start: value is no strict date
FixupLines ==
    {<<"t", " ", "d", "u", "e", ":", "t", "o", "m", "o", "r", "r", "o", "w">>, <<"(", "A", ")", " ", "t", " ", "d", "u", "e", ":", "n", "e", "x", "t", "_", "w", "e", "e", "k", " ", "s", "t", "a", "r", "t", ":", "b", "o", "g", "u", "s">>,
     <<"x", " ", "2", "0", "2", "0", "-", "0", "1", "-", "0", "2", " ", "t", " ", "s", "t", "a", "r", "t", ":", "t", "o", "m", "o", "r", "r", "o", "w", " ", "d", "u", "e", ":", "2", "0", "2", "4", "-", "0", "1", "-", "2", "0">>, <<"t", " ", "d", "u", "e", ":", "2", "0", "2", "4", "-", "1", "-", "5">>,
     <<"t", " ", "o", "v", "e", "r", "d", "u", "e", ":", "t", "o", "m", "o", "r", "r", "o", "w", " ", "d", "u", "e", ":", "t", "o", "m", "o", "r", "r", "o", "w">>}

RecordLines(T) ==
    OverdueLines(T) \cup NotOverdueLines(T) \cup ContextDueLines
        \cup DatedLines \cup StartLines \cup FixupLines

InitRecord ==
    /\ files = <<>>
    /\ today \in Todays
    /\ text \in RecordLines(today)
    /\ item = [parse(text)[1] EXCEPT !.line_number = 1]
    /\ lastOp = "parsed"
    /\ wasInit = {}
    /\ parsed = <<>>
    /\ ret = <<>>
    /\ arg = <<>>
    /\ list = <<>>

\* item.set_urgency(urg) on a parsed record
Reschedule ==
    /\ lastOp = "parsed"
    /\ \E urg \in Urgencies :
           /\ item' = set_urgency(item, urg)
           /\ arg' = urg
    /\ lastOp' = "set_urgency"
    /\ UNCHANGED <<files, list, today, wasInit, text, parsed, ret>>

\* item.zen(): the receiver has read its urgency
Zen ==
    /\ lastOp = "parsed"
    /\ ret' = zen(item)
    /\ item' = urgency_read(item)
    /\ lastOp' = "zen"
    /\ UNCHANGED <<files, arg, list, today, wasInit, text, parsed>>

\* item.but_done(include_date)
ButDone ==
    /\ lastOp = "parsed"
    /\ \E include_date \in BOOLEAN :
           /\ ret' = but_done(item, include_date)
           /\ arg' = include_date
    /\ lastOp' = "but_done"
    /\ UNCHANGED <<files, list, today, item, wasInit, text, parsed>>

\* item.but_pull(new_urgency)
ButPull ==
    /\ lastOp = "parsed"
    /\ \E new_urgency \in Urgencies :
           /\ ret' = but_pull(item, new_urgency)
           /\ arg' = new_urgency
    /\ lastOp' = "but_pull"
    /\ UNCHANGED <<files, list, today, item, wasInit, text, parsed>>

\* every accessor of a derived field is called on the record
ReadAll ==
    /\ lastOp = "parsed"
    /\ item' = kv_read(contexts_read(tags_read(tshirt_size_read(
                   urgency_read(start_date_read(due_date_read(
                       importance_read(item))))))))
    /\ lastOp' = "read"
    /\ UNCHANGED <<files, arg, list, today, wasInit, text, parsed, ret>>

\* item.clone() of a record whose caches are filled
Clone ==
    /\ lastOp = "read"
    /\ ret' = clone(item)
    /\ lastOp' = "clone"
    /\ UNCHANGED <<files, arg, list, today, item, wasInit, text, parsed>>

\* a setter is called on the clone
MutateClone ==
    /\ lastOp = "clone"
    /\ \/ \E x \in ItemDescs : ret' = set_description(ret, x)
       \/ \E p \in ItemPriorities : ret' = set_priority(ret, p)
       \/ \E urg \in ItemUrgencies : ret' = set_urgency(ret, urg)
       \/ ret' = set_completion(ret, TRUE)
    /\ lastOp' = "clone_mutated"
    /\ UNCHANGED <<files, arg, list, today, item, wasInit, text, parsed>>

\* a setter is called on the original
MutateOriginal ==
    /\ lastOp = "clone"
    /\ \/ \E x \in ItemDescs : item' = set_description(item, x)
       \/ \E p \in ItemPriorities : item' = set_priority(item, p)
       \/ \E urg \in ItemUrgencies : item' = set_urgency(item, urg)
       \/ item' = set_completion(item, TRUE)
    /\ lastOp' = "original_mutated"
    /\ UNCHANGED <<files, arg, list, today, wasInit, text, parsed, ret>>

\* item.fixup(warnings)
Fixup ==
    /\ lastOp = "parsed"
    /\ \E understood \in SUBSET NlPhrases :
           /\ ret' = fixup(item, understood)
           /\ arg' = understood
    /\ lastOp' = "fixup"
    /\ UNCHANGED <<files, list, today, item, wasInit, text, parsed>>

\* zen() is called on the record that zen() returned
ZenAgain ==
    /\ lastOp = "zen"
    /\ parsed' = <<zen(ret)>>
    /\ ret' = urgency_read(ret)
    /\ lastOp' = "zen_again"
    /\ UNCHANGED <<files, arg, list, today, item, wasInit, text>>

NextRecord ==
    \/ Reschedule \/ Zen \/ ButDone \/ ButPull
    \/ ReadAll \/ Clone \/ MutateClone \/ MutateOriginal
    \/ Fixup \/ ZenAgain

SpecRecord == InitRecord /\ [][NextRecord]_vars

\* the description has a work or school context, in any case
WorkOrSchool(s) ==
    \E c \in ContextWords(s) : to_lowercase(c) \in {N_work, N_school}

C11_WitnessInverse ==
    /\ lastOp = "set_urgency"
    /\ today = <<2023, 11, 8>>
    /\ arg = "ThisWeek"
    /\ urgency(item) = Some("ThisWeek")

\* the date of the table for urg
TableDate(T, urg) ==
    CASE urg = "Overdue" -> AddDays(T, 0 - 1)
      [] urg = "Today" -> T
      [] urg = "Soon" -> AddDays(T, 2)
      [] urg = "ThisWeek" -> SundayOfWeek(T)
      [] urg = "NextWeek" -> AddDays(SundayOfWeek(T), 7)
      [] urg = "NextMonth" -> EndOfMonthAfter(T)
      [] urg = "Later" -> AddDays(T, 183)

IsSaturday(d) == IsSunday(AddDays(d, 1))

\* C12: after set_urgency(u) with u later than Today on a record with a
\* work or school context, in any case, the due date written is never a
\* Saturday or a Sunday: a Saturday of the table moves back one day and a
\* Sunday two days; for Overdue and Today, and for records without such a
\* context, the date of the table is written as it is.
C12_WeekendShift ==
    lastOp = "set_urgency" =>
        LET t == TableDate(today, arg)
            shift == /\ arg \in {"Soon", "ThisWeek", "NextWeek", "NextMonth",
                                 "Later"}
                     /\ WorkOrSchool(item.description)
            written == IF shift /\ IsSaturday(t) THEN AddDays(t, 0 - 1)
                       ELSE IF shift /\ IsSunday(t) THEN AddDays(t, 0 - 2)
                       ELSE t
        IN  /\ due_date(item) = Some(written)
            /\ shift => ~IsSaturday(written) /\ ~IsSunday(written)

\* on Monday 2023-11-06 set_urgency(NextWeek) on "t @School" writes Friday
\* 2023-11-17 for Sunday 2023-11-19
C12_Witness ==
    /\ lastOp = "set_urgency"
    /\ today = <<2023, 11, 6>>
    /\ arg = "NextWeek"
    /\ text = <<"t", " ", "@", "S", "c", "h", "o", "o", "l">>
    /\ due_date(item) = Some(<<2023, 11, 17>>)

\* the fields of a record that a todo.txt line and its number give
Raw(i) ==
    <<i.line_number, i.completion, i.priority, i.completion_date,
      i.creation_date, i.description>>

\* the record the line was read as, before any call
Received == [parse(text)[1] EXCEPT !.line_number = 1]

\* C13: zen() on a record whose urgency is not Overdue, a record without a
\* due date included, returns a record with the same completion, priority,
\* completion_date, creation_date, description and line number.
C13_ZenKeepsNotOverdue ==
    lastOp = "zen" /\ urgency(Received) # Some("Overdue")
        => Raw(ret) = Raw(Received)

\* zen() on a task due today
C13_Witness ==
    /\ lastOp = "zen"
    /\ urgency(Received) = Some("Today")
    /\ ret.description = Received.description
    /\ ret.priority = "A"

\* C14: zen() on an Overdue record sets the urgency Soon when the importance
\* is A or B and the size is Small, NextWeek when exactly one of the two
\* holds, NextMonth when neither does, and leaves the receiver's fields as
\* they were.
C14_ZenTable ==
    lastOp = "zen" /\ urgency(Received) = Some("Overdue") =>
        LET important == Received.priority \in {"A", "B"}
            small == \E c \in ContextWords(Received.description) :
                         NamesSize(c, "s")
            target == IF important /\ small THEN "Soon"
                      ELSE IF important # small THEN "NextWeek"
                      ELSE "NextMonth"
        IN  /\ Raw(ret) = Raw(set_urgency(Received, target))
            /\ Raw(item) = Raw(Received)

\* an overdue "(B) t @S" on Monday 2023-11-06 becomes due Wednesday
C14_Witness ==
    /\ lastOp = "zen"
    /\ today = <<2023, 11, 6>>
    /\ Received.priority = "B"
    /\ due_date(Received) = Some(<<2023, 11, 5>>)
    /\ ret.description = <<"t", " ", "@", "S", " ", "d", "u", "e", ":", "2", "0", "2", "3", "-", "1", "1", "-", "0", "8">>

\* C15: but_done(include_date) returns a record with completion true and
\* leaves the receiver as it was; with include_date the completion date is
\* today and the creation date is today only if there was none; without it
\* both dates are those of the receiver; priority and description are
\* those of the receiver.
C15_ButDone ==
    lastOp = "but_done" =>
        /\ ret.completion = TRUE
        /\ item = Received
        /\ ret.completion_date =
               IF arg THEN Some(today) ELSE Received.completion_date
        /\ ret.creation_date =
               IF arg /\ Received.creation_date = None THEN Some(today)
               ELSE Received.creation_date
        /\ ret.priority = Received.priority
        /\ ret.description = Received.description

\* "(A) 2019-01-01 t" done with a date keeps its creation date
C15_Witness ==
    /\ lastOp = "but_done"
    /\ arg = TRUE
    /\ text = <<"(", "A", ")", " ", "2", "0", "1", "9", "-", "0", "1", "-", "0", "1", " ", "t">>
    /\ item.completion = FALSE
    /\ ret.completion = TRUE
    /\ ret.completion_date = Some(today)
    /\ ret.creation_date = Some(<<2019, 1, 1>>)

\* C19: but_pull(u) on a record with one or more start: tokens returns a
\* record whose start date is today and which is startable; on a record
\* without a start: token it adds none; the due date is the one
\* set_urgency(u) writes.
C19_PullRewritesStart ==
    lastOp = "but_pull" =>
        /\ IsSome(Get(kv(Received), K_start))
               => start_date(ret) = Some(today) /\ is_startable(ret)
        /\ Get(kv(Received), K_start) = None
               => Get(kv(ret), K_start) = None
        /\ due_date(ret) = due_date(set_urgency(Received, arg))

\* C18: clone() of a record returns a record with the same line number,
\* completion, priority, dates and description and with every derived cache
\* uninitialized, whatever caches the original has filled; a setter called
\* on the clone leaves the original's fields and caches as they were, and a
\* setter called on the original leaves the clone's.
C18_CloneIndependent ==
    /\ lastOp = "clone" =>
           /\ Raw(ret) = Raw(item)
           /\ Initialized(ret) = {}
           /\ Initialized(item) = CacheNames
    /\ lastOp = "clone_mutated" =>
           /\ Raw(item) = Raw(Received)
           /\ Initialized(item) = CacheNames
           /\ urgency(item) = urgency(Received)
           /\ tshirt_size(item) = tshirt_size(Received)
    /\ lastOp = "original_mutated" =>
           /\ Raw(ret) = Raw(Received)
           /\ Initialized(ret) = {}

\* the clone of "(A) t @S" got another description; the original kept its
\* own and its cached size
C18_Witness ==
    /\ lastOp = "clone_mutated"
    /\ text = <<"(", "A", ")", " ", "t", " ", "@", "S">>
    /\ ret.description = D_c
    /\ item.description = <<"t", " ", "@", "S">>
    /\ item._tshirt_size = <<Some("Small")>>

(***************************************************************************)
(* Sorting (src/action.rs, src/util.rs)                                    *)
(***************************************************************************)
\* the derived Ord of Importance and of TshirtSize
ImportanceRank(imp) ==
    CASE imp = "A" -> 0 [] imp = "B" -> 1 [] imp = "C" -> 2 [] imp = "D" -> 3
      [] imp = "E" -> 4

TshirtSizeRank(sz) ==
    CASE sz = "Small" -> 0 [] sz = "Medium" -> 1 [] sz = "Large" -> 2

\* Option::unwrap_or
unwrap_or(o, dflt) == IF IsSome(o) THEN o[1] ELSE dflt

\* a smart_key whose defaults are the first variant of each enum
smart_key_first_variants(i) ==
    <<unwrap_or(urgency(i), "Overdue"), unwrap_or(importance(i), "A"),
      unwrap_or(tshirt_size(i), "Small")>>

\* Item::smart_key, with the defaults of impl Default for Urgency,
\* Importance and TshirtSize
smart_key(i) ==
    <<unwrap_or(urgency(i), "Soon"), unwrap_or(importance(i), "D"),
      unwrap_or(tshirt_size(i), "Medium")>>

\* the characters of the model in the order of their code points
Ascii ==
    <<"\t", " ", "#", "(", ")", "+", "-",
      "0", "1", "2", "3", "4", "5", "6", "7", "8", "9", ":", "@",
      "A", "B", "C", "D", "E", "F", "G", "H", "I", "J", "K", "L", "M",
      "N", "O", "P", "Q", "R", "S", "T", "U", "V", "W", "X", "Y", "Z",
      "a", "b", "c", "d", "e", "f", "g", "h", "i", "j", "k", "l", "m",
      "n", "o", "p", "q", "r", "s", "t", "u", "v", "w", "x", "y", "z">>

CharCode(c) == CHOOSE k \in 1..Len(Ascii) : Ascii[k] = c

SortOrders ==
    {"Urgency", "Importance", "TshirtSize", "Alphabetical", "DueDate",
     "Original", "Smart"}

\* the key SortOrder::sort_items extracts from an item, as the sequence of
\* numbers whose lexicographic order is the Ord of the key: an enum is its
\* rank, a String its characters' codes, None of a date sorts before Some
SortKey(order, i) ==
    CASE order = "Urgency" -> <<UrgencyRank(unwrap_or(urgency(i), "Soon"))>>
      [] order = "Importance" ->
             <<ImportanceRank(unwrap_or(importance(i), "D"))>>
      [] order = "TshirtSize" ->
             <<TshirtSizeRank(unwrap_or(tshirt_size(i), "Medium"))>>
      [] order = "Alphabetical" ->
             [k \in 1..Len(i.description) |->
                 CharCode(to_lowercase(i.description)[k])]
      [] order = "DueDate" ->
             IF IsSome(due_date(i)) THEN <<num_days_from_ce(due_date(i)[1])>>
             ELSE <<>>
      [] order = "Original" -> <<i.line_number>>
      [] order = "Smart" ->
             <<UrgencyRank(smart_key(i)[1]), ImportanceRank(smart_key(i)[2]),
               TshirtSizeRank(smart_key(i)[3])>>

\* Ord::lt of two keys
KeyLt(a, b) ==
    \E k \in 1..(Len(a) + 1) :
        /\ \A m \in 1..(k - 1) : m <= Len(b) /\ a[m] = b[m]
        /\ \/ k = Len(a) + 1 /\ k <= Len(b)
           \/ k <= Len(a) /\ k <= Len(b) /\ a[k] < b[k]

\* a sort that puts the later of two elements with equal keys first
sort_by_cached_key_reversing_ties(v, keys) ==
    LET before(m, j) ==
            KeyLt(keys[m], keys[j]) \/ (keys[m] = keys[j] /\ m > j)
        pos(j) == 1 + Cardinality({m \in 1..Len(v) : before(m, j)})
    IN  [k \in 1..Len(v) |-> v[CHOOSE j \in 1..Len(v) : pos(j) = k]]

\* slice::sort_by_cached_key: the pairs (key, index) are sorted and the
\* elements are permuted accordingly
sort_by_cached_key(v, keys) ==
    LET before(m, j) ==
            KeyLt(keys[m], keys[j]) \/ (keys[m] = keys[j] /\ m < j)
        pos(j) == 1 + Cardinality({m \in 1..Len(v) : before(m, j)})
    IN  [k \in 1..Len(v) |-> v[CHOOSE j \in 1..Len(v) : pos(j) = k]]

\* SortOrder::sort_items; util::sort_items_by extracts the same keys
sort_items(order, items) ==
    sort_by_cached_key(items,
                       [k \in 1..Len(items) |-> SortKey(order, items[k])])

\* lists of up to MaxListLen tasks are sorted
MaxListLen == 3

SortLines ==
    {<<"B", " ", "t">>, <<"a", " ", "t">>, <<"(", "A", ")", " ", "t", " ", "@", "S", " ", "d", "u", "e", ":", "2", "0", "2", "4", "-", "0", "1", "-", "1", "4">>,
     <<"(", "E", ")", " ", "t", " ", "@", "L", " ", "d", "u", "e", ":", "2", "0", "2", "4", "-", "0", "3", "-", "2", "0">>}

\* the items of a list read from lines: each has the number of its line
ItemsOf(ls) == [k \in 1..Len(ls) |-> [parse(ls[k])[1] EXCEPT !.line_number = k]]

InitSort ==
    /\ files = <<>>
    /\ today = InitialToday
    /\ \E n \in 0..MaxListLen : \E ls \in [1..n -> SortLines] :
           list = ItemsOf(ls)
    /\ item = new
    /\ text = <<>>
    /\ lastOp = "items"
    /\ wasInit = {}
    /\ parsed = <<>>
    /\ ret = <<>>
    /\ arg = <<>>

\* order.sort_items(items)
SortItems ==
    /\ lastOp = "items"
    /\ \E order \in SortOrders :
           /\ ret' = sort_items(order, list)
           /\ arg' = order
    /\ lastOp' = "sorted"
    /\ UNCHANGED <<files, list, today, item, wasInit, text, parsed>>

\* the sorted items are sorted again by the same order
SortAgain ==
    /\ lastOp = "sorted"
    /\ list' = ret
    /\ ret' = sort_items(arg, ret)
    /\ lastOp' = "sorted_again"
    /\ UNCHANGED <<files, arg, today, item, wasInit, text, parsed>>

NextSort == SortItems \/ SortAgain

SpecSort == InitSort /\ [][NextSort]_vars

\* an item with no due: value, no priority and no size context
Untagged(i) ==
    /\ i.priority = NUL
    /\ Get(kv(i), K_due) = None
    /\ ~\E c \in ContextWords(i.description) :
           NamesSize(c, "s") \/ NamesSize(c, "m") \/ NamesSize(c, "l")

DefaultKey == <<UrgencyRank("Soon"), ImportanceRank("D"), TshirtSizeRank("Medium")>>

\* C16: smart_key() is (urgency, importance, size) with Soon, D and Medium
\* for what is absent; two items with no due date, no priority and no size
\* context have equal smart keys whatever their descriptions; sorted by
\* Smart, every item whose key is below (Soon, D, Medium) stands before them
\* and every item whose key is above stands after them.
C16_SmartKeyDefaults ==
    lastOp = "sorted" /\ arg = "Smart" =>
        /\ \A k \in 1..Len(list) :
               smart_key(list[k]) =
                   <<IF IsSome(urgency(list[k])) THEN urgency(list[k])[1]
                     ELSE "Soon",
                     IF IsSome(importance(list[k])) THEN importance(list[k])[1]
                     ELSE "D",
                     IF IsSome(tshirt_size(list[k]))
                     THEN tshirt_size(list[k])[1] ELSE "Medium">>
        /\ \A k, m \in 1..Len(list) :
               Untagged(list[k]) /\ Untagged(list[m])
                   => smart_key(list[k]) = smart_key(list[m])
        /\ \A k, m \in 1..Len(ret) :
               Untagged(ret[k]) =>
                   /\ KeyLt(SortKey("Smart", ret[m]), DefaultKey) => m < k
                   /\ KeyLt(DefaultKey, SortKey("Smart", ret[m])) => k < m

\* "B t", the overdue "(A) t @S ..." and "a t" sorted by Smart: the overdue
\* task first, then the two untagged ones in their input order
C16_Witness ==
    /\ lastOp = "sorted"
    /\ arg = "Smart"
    /\ Len(list) = 3
    /\ list[1].description = <<"B", " ", "t">>
    /\ list[2].priority = "A"
    /\ list[3].description = <<"a", " ", "t">>
    /\ ret = <<list[2], list[1], list[3]>>

\* the bijections of 1..n
Bijections(n) ==
    {p \in [1..n -> 1..n] : \A a, b \in 1..n : a # b => p[a] # p[b]}

\* C17: for each of the seven sort orders the result is a permutation of
\* the input in which keys never decrease and items with equal keys stand in
\* their input order; sorting the result again by the same order returns it
\* unchanged.
C17_StableSort ==
    /\ lastOp = "sorted" =>
           \E p \in Bijections(Len(list)) :
               /\ Len(ret) = Len(list)
               /\ \A k \in 1..Len(ret) : ret[k] = list[p[k]]
               /\ \A k, m \in 1..Len(ret) :
                      k < m =>
                          /\ ~KeyLt(SortKey(arg, ret[m]), SortKey(arg, ret[k]))
                          /\ SortKey(arg, ret[k]) = SortKey(arg, ret[m])
                                 => p[k] < p[m]
    /\ lastOp = "sorted_again" => ret = list

\* "(E) t @L due:2024-03-20", "B t", "a t" sorted by Importance: the two of
\* importance D come first, in their input order
C17_Witness ==
    /\ lastOp = "sorted"
    /\ arg = "Importance"
    /\ Len(list) = 3
    /\ list[1].priority = "E"
    /\ list[2].description = <<"B", " ", "t">>
    /\ list[3].description = <<"a", " ", "t">>
    /\ ret = <<list[2], list[3], list[1]>>

(***************************************************************************)
(* Lists of lines under done, remove, archive and tidy (src/list.rs,       *)
(* src/action/done.rs, remove.rs, archive.rs, tidy.rs)                     *)
(***************************************************************************)
\* Line::new_blank
new_blank == [kind |-> "Blank", text |-> <<>>, item |-> None, num |-> 0]

\* Line::from_item
from_item(i) ==
    [kind |-> "Item", text |-> Display(i), item |-> Some(i), num |-> 0]

\* Line::clone: the item is cloned with the line
Line_clone(l) ==
    IF IsSome(l.item) THEN [l EXCEPT !.item = Some(clone(l.item[1]))] ELSE l

\* Line::but_done
Line_but_done(l, include_date) ==
    IF l.kind = "Item"
    THEN from_item(but_done(Line_clone(l).item[1], include_date))
    ELSE Line_clone(l)

\* List::items
items(lines) ==
    LET is_item(l) == l.kind = "Item"
        ls == SelectSeq(lines, is_item)
    IN  [k \in 1..Len(ls) |-> ls[k].item[1]]

\* str::contains
str_contains(s, pat) == \E q \in 1..(Len(s) + 1) : OccursAt(s, pat, q)

\* SearchTerms::item_matches: the item matches at least one term
item_matches(terms, i) ==
    \E t \in 1..Len(terms) :
        LET term == terms[t]
        IN  IF Len(term) >= 1 /\ term[1] = "@" THEN has_context(i, term)
            ELSE IF Len(term) >= 1 /\ term[1] = "+" THEN has_tag(i, term)
            ELSE IF Len(term) >= 1 /\ term[1] = "#"
            THEN i.line_number = NumVal(Tail(term))
            ELSE str_contains(to_lowercase(i.description),
                              to_lowercase(term))

\* ConfirmationStatus::check: with Ask the user's answer decides
check(status, response) ==
    CASE status = "Yes" -> TRUE
      [] status = "No" -> FALSE
      [] status = "Ask" -> response

\* a mark_items_done_in_list that does not look at the completion
mark_items_done_in_list_again(input, search_terms, status, responses, incl) ==
    LET body(acc, k) ==
            LET line == input[k]
            IN  IF /\ line.kind = "Item"
                   /\ item_matches(search_terms, line.item[1])
                   /\ check(status, responses[k])
                THEN [count |-> acc.count + 1,
                      list |-> Append(acc.list,
                                      Line_but_done(line, incl))]
                ELSE [count |-> acc.count, list |-> Append(acc.list, line)]
        RECURSIVE loop(_, _)
        loop(acc, k) ==
            IF k > Len(input) THEN acc ELSE loop(body(acc, k), k + 1)
    IN  loop([count |-> 0, list |-> <<>>], 1)

\* mark_items_done_in_list; responses[k] is the answer the user would give
\* for line k
mark_items_done_in_list(input, search_terms, status, responses, incl) ==
    LET body(acc, k) ==
            LET line == input[k]
            IN  IF /\ line.kind = "Item"
                   /\ item_matches(search_terms, line.item[1])
                   /\ ~line.item[1].completion
                   /\ check(status, responses[k])
                THEN [count |-> acc.count + 1,
                      list |-> Append(acc.list,
                                      Line_but_done(line, incl))]
                ELSE [count |-> acc.count, list |-> Append(acc.list, line)]
        \* for line in the list: loop(acc, k) runs the body from line k on
        RECURSIVE loop(_, _)
        loop(acc, k) ==
            IF k > Len(input) THEN acc ELSE loop(body(acc, k), k + 1)
    IN  loop([count |-> 0, list |-> <<>>], 1)

\* a remove that deletes the line
remove_items_from_list_deleting(input, search_terms, conf, responses) ==
    LET body(acc, k) ==
            LET line == input[k]
            IN  IF /\ line.kind = "Item"
                   /\ item_matches(search_terms, line.item[1])
                   /\ check(conf, responses[k])
                THEN [count |-> acc.count + 1, list |-> acc.list]
                ELSE [count |-> acc.count, list |-> Append(acc.list, line)]
        \* for line in the list: loop(acc, k) runs the body from line k on
        RECURSIVE loop(_, _)
        loop(acc, k) ==
            IF k > Len(input) THEN acc ELSE loop(body(acc, k), k + 1)
    IN  loop([count |-> 0, list |-> <<>>], 1)

\* remove_items_from_list
remove_items_from_list(input, search_terms, conf, responses) ==
    LET body(acc, k) ==
            LET line == input[k]
            IN  IF /\ line.kind = "Item"
                   /\ item_matches(search_terms, line.item[1])
                   /\ check(conf, responses[k])
                THEN [count |-> acc.count + 1,
                      list |-> Append(acc.list, new_blank)]
                ELSE [count |-> acc.count, list |-> Append(acc.list, line)]
        \* for line in the list: loop(acc, k) runs the body from line k on
        RECURSIVE loop(_, _)
        loop(acc, k) ==
            IF k > Len(input) THEN acc ELSE loop(body(acc, k), k + 1)
    IN  loop([count |-> 0, list |-> <<>>], 1)

\* a run_archive_vec that puts each archived line ahead of the earlier ones
run_archive_vec_newest_first(src) ==
    LET body(acc, k) ==
            LET line == src[k]
            IN  IF line.kind = "Item" /\ line.item[1].completion
                THEN [moved |-> acc.moved + 1,
                      todo |-> Append(acc.todo, new_blank),
                      done |-> <<[kind |-> "Item", text |-> line.text,
                                  item |-> Some(clone(line.item[1])),
                                  num |-> 0]>> \o acc.done]
                ELSE [moved |-> acc.moved,
                      todo |-> Append(acc.todo, Line_clone(line)),
                      done |-> acc.done]
        RECURSIVE loop(_, _)
        loop(acc, k) ==
            IF k > Len(src) THEN acc ELSE loop(body(acc, k), k + 1)
    IN  loop([moved |-> 0, todo |-> <<>>, done |-> <<>>], 1)

\* run_archive_vec with todo and done empty at the call
run_archive_vec(src) ==
    LET body(acc, k) ==
            LET line == src[k]
            IN  IF line.kind = "Item" /\ line.item[1].completion
                THEN [moved |-> acc.moved + 1,
                      todo |-> Append(acc.todo, new_blank),
                      done |-> Append(acc.done,
                                      [kind |-> "Item", text |-> line.text,
                                       item |-> Some(clone(line.item[1])),
                                       num |-> 0])]
                ELSE [moved |-> acc.moved,
                      todo |-> Append(acc.todo, Line_clone(line)),
                      done |-> acc.done]
        \* for line in the list: loop(acc, k) runs the body from line k on
        RECURSIVE loop(_, _)
        loop(acc, k) ==
            IF k > Len(src) THEN acc ELSE loop(body(acc, k), k + 1)
    IN  loop([moved |-> 0, todo |-> <<>>, done |-> <<>>], 1)

\* tidy: the list that execute writes
tidy(order, lines) ==
    LET sorted == sort_items(order, items(lines))
    IN  [k \in 1..Len(sorted) |-> from_item(clone(sorted[k]))]

\* util::find_by_context, find_by_tag, find_by_line_number, find_by_string:
\* the items that pass the filter of one term
find_by(term, results) ==
    LET keep(i) ==
            IF Len(term) >= 1 /\ term[1] = "@" THEN has_context(i, term)
            ELSE IF Len(term) >= 1 /\ term[1] = "+" THEN has_tag(i, term)
            ELSE IF Len(term) >= 1 /\ term[1] = "#"
            THEN i.line_number = NumVal(Tail(term))
            ELSE str_contains(to_lowercase(i.description),
                              to_lowercase(term))
    IN  SelectSeq(results, keep)

\* a find_results that keeps what matches at least one term
find_results_any_term(search_terms, lines) ==
    LET keep(i) == item_matches(search_terms, i)
    IN  IF search_terms = <<>> THEN items(lines)
        ELSE SelectSeq(items(lines), keep)

\* find_results: the terms filter the items one after the other
find_results(search_terms, lines) ==
    LET RECURSIVE loop(_, _)
        loop(results, t) ==
            IF t > Len(search_terms) THEN results
            ELSE loop(find_by(search_terms[t], results), t + 1)
    IN  loop(items(lines), 1)

\* todo lists of up to MaxLines lines
MaxLines == 3

FileLines ==
    {<<>>, <<"#", " ", "c">>, <<"f", "o", "o", " ", "@", "h", "o", "m", "e">>, <<"x", " ", "2", "0", "2", "0", "-", "0", "1", "-", "0", "2", " ", "f", "o", "o", " ", "+", "p">>, <<"b", "a", "r">>,
     <<"x", " ", "d", "o", "n", "e">>}

\* List::from_string: line k has the number k
LinesOf(ls) == [k \in 1..Len(ls) |-> from_string(ls[k], k)[1]]

TermLists == {<<<<"F", "O", "O">>>>, <<<<"@", "H", "o", "m", "e">>, <<"+", "p">>, <<"#", "3">>>>}

\* the terms of tada find
FindTermLists ==
    TermLists \cup {<<>>, <<<<"F", "O", "O">>, <<"@", "h", "o", "m", "e">>>>, <<<<"o">>, <<"+", "P">>, <<"#", "2">>>>, <<<<"x">>>>}

Statuses == {"Yes", "No", "Ask"}

\* the answers of the user: none is asked for with Yes and No
Responses(status, n) ==
    IF status = "Ask" THEN [1..n -> BOOLEAN] ELSE {[k \in 1..n |-> TRUE]}

InitList ==
    /\ files = <<>>
    /\ today = InitialToday
    /\ \E n \in 0..MaxLines : \E ls \in [1..n -> FileLines] :
           list = LinesOf(ls)
    /\ item = new
    /\ text = <<>>
    /\ lastOp = "list"
    /\ wasInit = {}
    /\ parsed = <<>>
    /\ ret = <<>>
    /\ arg = <<>>

\* tada done
MarkDone ==
    /\ lastOp = "list"
    /\ \E terms \in TermLists, status \in Statuses, include_date \in BOOLEAN :
           \E responses \in Responses(status, Len(list)) :
               /\ ret' = mark_items_done_in_list(list, terms, status,
                                                 responses, include_date)
               /\ arg' = [terms |-> terms, status |-> status,
                          responses |-> responses,
                          include_date |-> include_date]
    /\ lastOp' = "done"
    /\ UNCHANGED <<files, list, today, item, wasInit, text, parsed>>

\* tada remove
Remove ==
    /\ lastOp = "list"
    /\ \E terms \in TermLists, status \in Statuses :
           \E responses \in Responses(status, Len(list)) :
               /\ ret' = remove_items_from_list(list, terms, status,
                                                responses)
               /\ arg' = [terms |-> terms, status |-> status,
                          responses |-> responses]
    /\ lastOp' = "remove"
    /\ UNCHANGED <<files, list, today, item, wasInit, text, parsed>>

\* tada archive
Archive ==
    /\ lastOp = "list"
    /\ ret' = run_archive_vec(list)
    /\ lastOp' = "archive"
    /\ UNCHANGED <<files, arg, list, today, item, wasInit, text, parsed>>

\* tada tidy
Tidy ==
    /\ lastOp = "list"
    /\ \E order \in {"Original", "Alphabetical"} :
           /\ ret' = tidy(order, list)
           /\ arg' = order
    /\ lastOp' = "tidy"
    /\ UNCHANGED <<files, list, today, item, wasInit, text, parsed>>

\* tada find
Find ==
    /\ lastOp = "list"
    /\ \E terms \in FindTermLists :
           /\ ret' = find_results(terms, list)
           /\ arg' = terms
    /\ lastOp' = "find"
    /\ UNCHANGED <<files, list, today, item, wasInit, text, parsed>>

NextList == MarkDone \/ Remove \/ Archive \/ Tidy \/ Find

SpecList == InitList /\ [][NextList]_vars

\* the list a command produces
Produced ==
    CASE lastOp \in {"done", "remove"} -> ret.list
      [] lastOp = "archive" -> ret.todo
      [] lastOp = "tidy" -> ret
      [] OTHER -> list

\* the command acts on line k
ActedOn(k) ==
    /\ list[k].kind = "Item"
    /\ CASE lastOp = "done" ->
                /\ item_matches(arg.terms, list[k].item[1])
                /\ ~list[k].item[1].completion
                /\ arg.status = "Yes" \/ (arg.status = "Ask" /\ arg.responses[k])
         [] lastOp = "remove" ->
                /\ item_matches(arg.terms, list[k].item[1])
                /\ arg.status = "Yes" \/ (arg.status = "Ask" /\ arg.responses[k])
         [] lastOp = "archive" -> list[k].item[1].completion
         [] OTHER -> FALSE

\* C20: done, remove and archive each produce a list with as many lines as
\* the input; a line not acted on stands at its index with its text; a
\* removed or archived item has a blank line in its place.
C20_NoRenumbering ==
    lastOp \in {"done", "remove", "archive"} =>
        /\ Len(Produced) = Len(list)
        /\ \A k \in 1..Len(list) :
               /\ ~ActedOn(k) => Produced[k].text = list[k].text
               /\ ActedOn(k) /\ lastOp \in {"remove", "archive"}
                      => Produced[k].kind = "Blank" /\ Produced[k].text = <<>>

\* "foo @home", a blank line and "bar": foo is removed and bar is still the
\* third line
C20_Witness ==
    /\ lastOp = "remove"
    /\ Len(list) = 3
    /\ list[1].text = <<"f", "o", "o", " ", "@", "h", "o", "m", "e">>
    /\ list[3].text = <<"b", "a", "r">>
    /\ ret.count = 1
    /\ ret.list[1] = new_blank
    /\ ret.list[3] = list[3]

\* tidy of the same list gives two lines, and bar is the second
C20_TidyRenumbers ==
    /\ lastOp = "tidy"
    /\ Len(list) = 3
    /\ list[1].text = <<"f", "o", "o", " ", "@", "h", "o", "m", "e">>
    /\ list[2].kind = "Blank"
    /\ list[3].text = <<"b", "a", "r">>
    /\ Len(ret) = 2
    /\ ret[2].text = <<"b", "a", "r">>

\* the line is a completed task
IsCompleted(l) == l.kind = "Item" /\ l.item[1].completion

\* the texts of a sequence of lines
Texts(ls) == [k \in 1..Len(ls) |-> ls[k].text]

\* C21: run_archive_vec gives done exactly the completed items of the
\* source, in source order and with their text; todo has one line per
\* source line, a blank line for each completed item and every other line
\* unchanged; the count returned is the number of lines given to done.
C21_ArchivePartition ==
    lastOp = "archive" =>
        /\ Texts(ret.done) = Texts(SelectSeq(list, IsCompleted))
        /\ \A j \in 1..Len(ret.done) :
               /\ ret.done[j].kind = "Item"
               /\ Raw(ret.done[j].item[1])
                      = Raw(SelectSeq(list, IsCompleted)[j].item[1])
        /\ Len(ret.todo) = Len(list)
        /\ \A k \in 1..Len(list) :
               ret.todo[k] = IF IsCompleted(list[k]) THEN new_blank
                             ELSE list[k]
        /\ ret.moved = Len(ret.done)

\* "x done", "bar", "x 2020-01-02 foo +p": two lines are archived in their
\* order and bar stays the second line
C21_Witness ==
    /\ lastOp = "archive"
    /\ Texts(list) = <<<<"x", " ", "d", "o", "n", "e">>, <<"b", "a", "r">>, <<"x", " ", "2", "0", "2", "0", "-", "0", "1", "-", "0", "2", " ", "f", "o", "o", " ", "+", "p">>>>
    /\ ret.moved = 2
    /\ Texts(ret.done) = <<<<"x", " ", "d", "o", "n", "e">>, <<"x", " ", "2", "0", "2", "0", "-", "0", "1", "-", "0", "2", " ", "f", "o", "o", " ", "+", "p">>>>
    /\ Texts(ret.todo) = <<<<>>, <<"b", "a", "r">>, <<>>>>

\* the whitespace-separated words of s that start with the character mk,
\* without it
SigilWords(s, mk) ==
    {Slice(s, ab[1] + 1, ab[2]) : ab \in
        {ab \in (1..Len(s)) \X (2..(Len(s) + 1)) :
            /\ ab[1] + 1 < ab[2]
            /\ s[ab[1]] = mk
            /\ ab[1] = 1 \/ IsSpace(s[ab[1] - 1])
            /\ ab[2] = Len(s) + 1 \/ IsSpace(s[ab[2]])
            /\ \A k \in ab[1]..(ab[2] - 1) : ~IsSpace(s[k])}}

\* the task i satisfies one search term: @x names a context, +x a tag, #n
\* the line number, anything else a part of the description, letters
\* compared without case
TermHolds(term, i) ==
    CASE term[1] = "@" ->
             \E w \in SigilWords(i.description, "@") :
                 to_lowercase(w) = to_lowercase(Tail(term))
      [] term[1] = "+" ->
             \E w \in SigilWords(i.description, "+") :
                 to_lowercase(w) = to_lowercase(Tail(term))
      [] term[1] = "#" -> i.line_number = NumVal(Tail(term))
      [] OTHER ->
             \E q \in 1..(Len(i.description) + 1) :
                 OccursAt(to_lowercase(i.description), to_lowercase(term), q)

\* done would mark line k
ToMark(k) ==
    /\ list[k].kind = "Item"
    /\ \E t \in 1..Len(arg.terms) : TermHolds(arg.terms[t], list[k].item[1])
    /\ ~list[k].item[1].completion
    /\ arg.status = "Yes" \/ (arg.status = "Ask" /\ arg.responses[k])

\* C23: mark_items_done_in_list marks an item done exactly when it matches
\* the search terms, is not complete and is confirmed; the count is the
\* number of items marked; every other line is passed through as it is, at
\* its position.
C23_MarkDone ==
    lastOp = "done" =>
        /\ Len(ret.list) = Len(list)
        /\ \A k \in 1..Len(list) :
               IF ToMark(k)
               THEN /\ ret.list[k].kind = "Item"
                    /\ ret.list[k].item[1].completion
                    /\ ret.list[k].item[1].description
                           = list[k].item[1].description
                    /\ ret.list[k].text = Display(ret.list[k].item[1])
               ELSE ret.list[k] = list[k]
        /\ ret.count = Cardinality({k \in 1..Len(list) : ToMark(k)})

\* done foo, asked line by line: "foo @home" is confirmed and marked, the
\* completed "x 2020-01-02 foo +p" is passed through
C23_Witness ==
    /\ lastOp = "done"
    /\ arg.status = "Ask"
    /\ arg.include_date
    /\ Texts(list) = <<<<"f", "o", "o", " ", "@", "h", "o", "m", "e">>, <<"x", " ", "2", "0", "2", "0", "-", "0", "1", "-", "0", "2", " ", "f", "o", "o", " ", "+", "p">>>>
    /\ arg.responses = <<TRUE, TRUE>>
    /\ ret.count = 1
    /\ Texts(ret.list) = <<<<"x", " ", "2", "0", "2", "4", "-", "0", "1", "-", "1", "5", " ", "2", "0", "2", "4", "-", "0", "1", "-", "1", "5", " ", "f", "o", "o", " ", "@", "h", "o", "m", "e">>,
                           <<"x", " ", "2", "0", "2", "0", "-", "0", "1", "-", "0", "2", " ", "f", "o", "o", " ", "+", "p">>>>

\* C24: find_results returns, in the order of the list, exactly the items
\* that satisfy every search term: none returned fails a term and none that
\* satisfies all of them is left out.
C24_FindAllTerms ==
    lastOp = "find" =>
        LET hit(l) == /\ l.kind = "Item"
                      /\ \A t \in 1..Len(arg) : TermHolds(arg[t], l.item[1])
            hits == SelectSeq(list, hit)
        IN  ret = [k \in 1..Len(hits) |-> hits[k].item[1]]

\* find FOO @home on "x 2020-01-02 foo +p", "bar", "foo @home" returns the
\* third line only
C24_Witness ==
    /\ lastOp = "find"
    /\ Len(arg) = 2
    /\ arg[1] = <<"F", "O", "O">>
    /\ Texts(list) = <<<<"x", " ", "2", "0", "2", "0", "-", "0", "1", "-", "0", "2", " ", "f", "o", "o", " ", "+", "p">>, <<"b", "a", "r">>, <<"f", "o", "o", " ", "@", "h", "o", "m", "e">>>>
    /\ Len(ret) = 1
    /\ ret[1].line_number = 3

\* C25: Item::parse on a line that is only leading markers followed by
\* whitespace (a completion marker, a priority marker, or both) recognises
\* the markers in their fields and gives description = ""; the text of the
\* markers is not moved into the description.
C25_MarkersOnly ==
    lastOp = "parse" =>
        \A m \in Markers :
            (m.txt # <<>> /\ text = m.txt) =>
                /\ parsed # <<>>
                /\ parsed[1].completion = m.completion
                /\ parsed[1].priority = m.priority
                /\ parsed[1].description = <<>>

\* with two blanks after the last marker the first is given to the marker
\* and the second is the description, which trim empties
C25_TwoBlanks ==
    /\ lastOp = "parse"
    /\ text = <<"x", " ", " ">>
    /\ parsed # <<>>
    /\ parsed[1].completion
    /\ parsed[1].description = <<>>

\* with one blank the marker group is given up and the marker is the
\* description
C25_OneBlank ==
    /\ lastOp = "parse"
    /\ text = <<"x", " ">>
    /\ parsed # <<>>
    /\ ~parsed[1].completion
    /\ parsed[1].description = <<"x">>

\* the value of slot in the description of i does not parse as a strict date
Malformed(i, slot) ==
    /\ slot \in DOMAIN _build_kv(i)
    /\ parse_from_str(_build_kv(i)[slot]) = None

\* the phrase the natural-language parser is given for slot
Phrase(i, slot) == replace(_build_kv(i)[slot], <<"_">>, <<" ">>)

\* C26: fixup returns a record and leaves completion, priority,
\* completion_date, creation_date and line_number as they are; the receiver
\* is as it was; when due: and start: are absent or strict dates the record
\* returned has the fields of the input; a value that fails strict parsing
\* is replaced by a strict date when the natural-language parser finds one
\* and is left as it is when it does not.
C26_Fixup ==
    lastOp = "fixup" =>
        /\ item = Received
        /\ ret.line_number = item.line_number
        /\ ret.completion = item.completion
        /\ ret.priority = item.priority
        /\ ret.completion_date = item.completion_date
        /\ ret.creation_date = item.creation_date
        /\ (\A slot \in {K_due, K_start} :
                ~Malformed(item, slot) \/ Phrase(item, slot) \notin arg)
               => Raw(ret) = Raw(item)
        /\ \A slot \in {K_due, K_start} :
               /\ slot \in DOMAIN _build_kv(item)
                      <=> slot \in DOMAIN _build_kv(ret)
               /\ slot \in DOMAIN _build_kv(item) =>
                      _build_kv(ret)[slot] =
                          IF Malformed(item, slot)
                                 /\ Phrase(item, slot) \in arg
                          THEN format_ymd(
                                   IF Phrase(item, slot) = <<"n", "e", "x", "t", " ", "w", "e", "e", "k">>
                                   THEN AddDays(today, 7)
                                   ELSE AddDays(today, 1))
                          ELSE _build_kv(item)[slot]

\* "(A) t due:next_week start:bogus" on 2024-01-15, the parser reading
\* "next week" and not "bogus": due: is rewritten and start: is left
C26_Witness ==
    /\ lastOp = "fixup"
    /\ today = <<2024, 1, 15>>
    /\ text = <<"(", "A", ")", " ", "t", " ", "d", "u", "e", ":", "n", "e", "x", "t", "_", "w", "e", "e", "k", " ", "s", "t", "a", "r", "t", ":", "b", "o", "g", "u", "s">>
    /\ arg = {<<"n", "e", "x", "t", " ", "w", "e", "e", "k">>}
    /\ ret.priority = "A"
    /\ ret.description = <<"t", " ", "d", "u", "e", ":", "2", "0", "2", "4", "-", "0", "1", "-", "2", "2", " ", "s", "t", "a", "r", "t", ":", "b", "o", "g", "u", "s">>

(***************************************************************************)
(* tada important, tada quick and tada urgent (src/action/important.rs,    *)
(* quick.rs, urgent.rs): the tasks shown                                   *)
(***************************************************************************)
\* the number of tasks shown when -n is not given
DefaultCount == 3

\* Iterator::take
take(v, n) == SubSeq(v, 1, IF n < Len(v) THEN n ELSE Len(v))

\* important::execute: the tasks selected
important_selected(lines, max) ==
    LET keep(i) == is_startable(i) /\ ~i.completion
    IN  take(SelectSeq(sort_items("Importance", items(lines)), keep), max)

\* quick::execute: the tasks selected
quick_selected(lines, max) ==
    LET keep(i) == is_startable(i) /\ ~i.completion
    IN  take(SelectSeq(sort_items("TshirtSize", items(lines)), keep), max)

\* urgent::execute: the tasks selected
urgent_selected(lines, max) ==
    LET keep(i) == ~i.completion
    IN  take(SelectSeq(sort_items("DueDate", items(lines)), keep), max)

\* the longest todo list shown
MaxShown == 3

ShowLines ==
    {<<"a">>, <<"(", "A", ")", " ", "b", " ", "d", "u", "e", ":", "2", "0", "2", "4", "-", "0", "1", "-", "1", "0">>, <<"c", " ", "@", "S", " ", "d", "u", "e", ":", "2", "0", "2", "4", "-", "0", "1", "-", "2", "0">>,
     <<"x", " ", "d", " ", "d", "u", "e", ":", "2", "0", "2", "4", "-", "0", "1", "-", "0", "1">>, <<"(", "B", ")", " ", "e", " ", "@", "S", " ", "s", "t", "a", "r", "t", ":", "2", "9", "9", "9", "-", "0", "1", "-", "0", "1", " ", "d", "u", "e", ":", "2", "0", "2", "4", "-", "0", "1", "-", "0", "5">>}

InitShow ==
    /\ files = <<>>
    /\ today = InitialToday
    /\ \E n \in 0..MaxShown :
           \E ls \in [1..n -> ShowLines] : list = LinesOf(ls)
    /\ lastOp = "list"
    /\ item = new
    /\ wasInit = {}
    /\ text = <<>>
    /\ parsed = <<>>
    /\ ret = <<>>
    /\ arg = <<>>

\* tada important [-n max] [-s sort]
Important ==
    /\ lastOp = "list"
    /\ \E max \in 0..DefaultCount, sort_by \in {"Importance", "Original"} :
           /\ ret' = sort_items(sort_by, important_selected(list, max))
           /\ arg' = [cmd |-> "important", order |-> "Importance",
                      max |-> max,
                      selected |-> important_selected(list, max)]
    /\ lastOp' = "shown"
    /\ UNCHANGED <<files, list, today, item, wasInit, text, parsed>>

\* tada quick [-n max] [-s sort]
Quick ==
    /\ lastOp = "list"
    /\ \E max \in 0..DefaultCount, sort_by \in {"TshirtSize", "Original"} :
           /\ ret' = sort_items(sort_by, quick_selected(list, max))
           /\ arg' = [cmd |-> "quick", order |-> "TshirtSize",
                      max |-> max,
                      selected |-> quick_selected(list, max)]
    /\ lastOp' = "shown"
    /\ UNCHANGED <<files, list, today, item, wasInit, text, parsed>>

\* tada urgent [-n max] [-s sort]
Urgent ==
    /\ lastOp = "list"
    /\ \E max \in 0..DefaultCount, sort_by \in {"DueDate", "Original"} :
           /\ ret' = sort_items(sort_by, urgent_selected(list, max))
           /\ arg' = [cmd |-> "urgent", order |-> "DueDate",
                      max |-> max,
                      selected |-> urgent_selected(list, max)]
    /\ lastOp' = "shown"
    /\ UNCHANGED <<files, list, today, item, wasInit, text, parsed>>

NextShow == Important \/ Quick \/ Urgent

SpecShow == InitShow /\ [][NextShow]_vars

\* the members of a sequence
Range(v) == {v[k] : k \in 1..Len(v)}

\* a task that may be shown: not complete, no start date in the future
Eligible(i) == ~i.completion /\ is_startable(i)

\* C27: important, quick and urgent show at most N tasks, all of them
\* incomplete and startable, and they are the first N eligible tasks of the
\* whole list under the selection order.
C27_ShownEligible ==
    lastOp = "shown" =>
        LET elig == SelectSeq(sort_items(arg.order, items(list)), Eligible)
        IN  /\ Len(ret) <= arg.max
            /\ \A k \in 1..Len(ret) : Eligible(ret[k])
            /\ Range(ret) = Range(take(elig, arg.max))

\* important and quick do show the first N eligible tasks
C27_ImportantQuick ==
    (lastOp = "shown" /\ arg.cmd # "urgent") =>
        LET elig == SelectSeq(sort_items(arg.order, items(list)), Eligible)
        IN  /\ arg.selected = take(elig, arg.max)
            /\ Range(ret) = Range(arg.selected)

\* urgent shows a task that cannot be started before 2999
C27_UrgentShowsNotStartable ==
    /\ lastOp = "shown"
    /\ arg.cmd = "urgent"
    /\ \E k \in 1..Len(ret) : ~is_startable(ret[k])

\* C28: urgent selects the N incomplete tasks with the earliest due dates:
\* a task without a due date is selected only when fewer than N incomplete
\* tasks have one, and it is never placed ahead of a task that has one.
C28_UrgentEarliestDue ==
    (lastOp = "shown" /\ arg.cmd = "urgent") =>
        LET sel == arg.selected
            inc == SelectSeq(items(list), LAMBDA i : ~i.completion)
            dated == {k \in 1..Len(inc) : IsSome(due_date(inc[k]))}
        IN  /\ \A k \in 1..Len(sel) : ~sel[k].completion
            /\ Len(sel) = (IF arg.max < Len(inc) THEN arg.max ELSE Len(inc))
            /\ (\E k \in 1..Len(sel) : due_date(sel[k]) = None)
                   => /\ Cardinality(dated) < arg.max
                      /\ \A d \in dated : inc[d] \in Range(sel)
            /\ \A j, k \in 1..Len(sel) :
                   (j < k /\ due_date(sel[j]) = None)
                       => due_date(sel[k]) = None
            /\ \A k \in 1..Len(sel), d \in dated :
                   (IsSome(due_date(sel[k])) /\ inc[d] \notin Range(sel))
                       => num_days_from_ce(Unwrap(due_date(sel[k])))
                              <= num_days_from_ce(Unwrap(due_date(inc[d])))

\* urgent -n 1 on "(A) b due:2024-01-10", "a" selects the undated "a"
C28_UndatedFirst ==
    /\ lastOp = "shown"
    /\ arg.cmd = "urgent"
    /\ arg.max = 1
    /\ Texts(list) = <<<<"(", "A", ")", " ", "b", " ", "d", "u", "e", ":", "2", "0", "2", "4", "-", "0", "1", "-", "1", "0">>, <<"a">>>>
    /\ Len(arg.selected) = 1
    /\ arg.selected[1].description = <<"a">>

\* C29: the record zen() returns is never Overdue, whatever the weekday of
\* today, the contexts and the number of due: tokens; and zen() of that
\* record has the same fields.
C29_ZenNeverOverdue ==
    /\ lastOp = "zen" => urgency(ret) # Some("Overdue")
    /\ lastOp = "zen_again" =>
           /\ urgency(ret) # Some("Overdue")
           /\ Raw(parsed[1]) = Raw(ret)

\* an overdue "(A) t @xs @work" on Friday 2023-11-10: Soon is the Sunday,
\* the work context moves it back to the Friday, and the record is due
\* today
C29_Witness ==
    /\ lastOp = "zen_again"
    /\ today = <<2023, 11, 10>>
    /\ text = <<"(", "A", ")", " ", "t", " ", "@", "x", "s", " ", "@", "w", "o", "r", "k", " ", "d", "u", "e", ":", "2", "0", "2", "3", "-", "1", "1", "-", "0", "9">>
    /\ urgency(ret) = Some("Today")
    /\ parsed[1].description = ret.description

(***************************************************************************)
(* tada archive on the files todo.txt and done.txt (src/action/archive.rs, *)
(* List::append_lines_to_url, List::to_filename).  A file is None when it  *)
(* does not exist and Some of its lines when it does; files.log is the     *)
(* sequence of file operations made so far; arg keeps the two files as     *)
(* they were when the command was started.                                 *)
(***************************************************************************)
\* the longest file
MaxFile == 2

TodoFileLines == {<<"x", " ", "F", "o", "o", "1">>, <<"x", " ", "F", "o", "o", "2">>, <<>>, <<"Z", " ", "B", "a", "z">>}

DoneFileLines == {<<"x", " ", "O", "l", "d", "1">>, <<"x", " ", "O", "l", "d", "2">>}

FilesOf(S) ==
    {None} \cup {Some(ls) : ls \in UNION {[1..n -> S] : n \in 0..MaxFile}}

InitArchive ==
    /\ today = InitialToday
    /\ \E t \in FilesOf(TodoFileLines), d \in FilesOf(DoneFileLines) :
           /\ files = [todo |-> t, done |-> d, log |-> <<>>]
           /\ arg = [todo |-> t, done |-> d]
    /\ lastOp = "start"
    /\ list = <<>>
    /\ ret = <<>>
    /\ item = new
    /\ wasInit = {}
    /\ text = <<>>
    /\ parsed = <<>>

Logged(op) == [files EXCEPT !.log = Append(files.log, op)]

\* the proper prefixes of a sequence: what a failed write_all may have
\* written
Prefixes(v) == {SubSeq(v, 1, n) : n \in 0..(Len(v) - 1)}

\* run_archive that goes on to the files though nothing was moved
nothing_moved_goes_on(moved) == FALSE

\* if moved == 0 { return (moved, todo); }
nothing_moved(moved) == moved = 0

\* an append that keeps the new lines only
append_lines_replacing(done_lines, lines) == lines

\* for l in lines { list.lines.push(l.clone()); }
append_lines(done_lines, lines) ==
    done_lines \o [k \in 1..Len(lines) |-> Line_clone(lines[k])]

\* List::from_url(todo_filename).expect(..), then run_archive_vec
ReadTodo ==
    /\ lastOp = "start"
    /\ files' = Logged("open todo")
    /\ IF files.todo = None
       THEN lastOp' = "panic" /\ UNCHANGED <<list, ret>>
       ELSE /\ list' = LinesOf(files.todo[1])
            /\ ret' = run_archive_vec(LinesOf(files.todo[1]))
            /\ lastOp' = "vec"
    /\ UNCHANGED <<arg, today, item, wasInit, text, parsed>>

\* return (moved, todo) when no line was moved
ReturnUnmoved ==
    /\ lastOp = "vec"
    /\ nothing_moved(ret.moved)
    /\ ret' = [moved |-> ret.moved, list |-> list]
    /\ lastOp' = "returned"
    /\ UNCHANGED <<files, arg, list, today, item, wasInit, text, parsed>>

\* append_lines_to_url: done.txt is read and the lines are pushed
AppendOpen ==
    /\ lastOp = "vec"
    /\ ~nothing_moved(ret.moved)
    /\ files' = Logged("open done")
    /\ IF files.done = None
       THEN lastOp' = "panic" /\ UNCHANGED ret
       ELSE /\ ret' = [moved |-> ret.moved, todo |-> ret.todo,
                       done |-> append_lines(LinesOf(files.done[1]),
                                             ret.done)]
            /\ lastOp' = "done_read"
    /\ UNCHANGED <<arg, list, today, item, wasInit, text, parsed>>

\* list.to_url(done): File::create truncates done.txt, or fails
DoneCreate ==
    /\ lastOp = "done_read"
    /\ \/ /\ files' = [Logged("create done") EXCEPT !.done = Some(<<>>)]
          /\ lastOp' = "done_created"
       \/ /\ files' = Logged("create done")
          /\ lastOp' = "panic"
    /\ UNCHANGED <<arg, list, ret, today, item, wasInit, text, parsed>>

\* write_all(serialize()) into done.txt: all of it, or a part and a panic
DoneWrite ==
    /\ lastOp = "done_created"
    /\ \/ /\ files' = [Logged("write done") EXCEPT
                           !.done = Some(Texts(ret.done))]
          /\ lastOp' = "done_written"
       \/ \E part \in Prefixes(Texts(ret.done)) :
              /\ files' = [Logged("write done") EXCEPT !.done = Some(part)]
              /\ lastOp' = "panic"
    /\ UNCHANGED <<arg, list, ret, today, item, wasInit, text, parsed>>

\* list.to_url(todo): File::create truncates todo.txt, or fails
TodoCreate ==
    /\ lastOp = "done_written"
    /\ \/ /\ files' = [Logged("create todo") EXCEPT !.todo = Some(<<>>)]
          /\ lastOp' = "todo_created"
       \/ /\ files' = Logged("create todo")
          /\ lastOp' = "panic"
    /\ UNCHANGED <<arg, list, ret, today, item, wasInit, text, parsed>>

\* write_all(serialize()) into todo.txt, and the return of (moved, list)
TodoWrite ==
    /\ lastOp = "todo_created"
    /\ \/ /\ files' = [Logged("write todo") EXCEPT
                           !.todo = Some(Texts(ret.todo))]
          /\ ret' = [moved |-> ret.moved, list |-> ret.todo]
          /\ lastOp' = "returned"
       \/ \E part \in Prefixes(Texts(ret.todo)) :
              /\ files' = [Logged("write todo") EXCEPT !.todo = Some(part)]
              /\ lastOp' = "panic"
              /\ UNCHANGED ret
    /\ UNCHANGED <<arg, list, today, item, wasInit, text, parsed>>

NextArchive ==
    \/ ReadTodo \/ ReturnUnmoved \/ AppendOpen
    \/ DoneCreate \/ DoneWrite \/ TodoCreate \/ TodoWrite

SpecArchive == InitArchive /\ [][NextArchive]_vars

\* the lines of a file, none when it does not exist
FileLinesOf(f) == IF f = None THEN <<>> ELSE f[1]

\* the completed tasks of todo.txt as it was, in their order
CompletedBefore ==
    Texts(SelectSeq(LinesOf(FileLinesOf(arg.todo)), IsCompleted))

\* C22: when todo.txt holds no completed task, run_archive opens todo.txt
\* and nothing else: todo.txt is not rewritten, done.txt is not read,
\* created or written, and (0, the list as loaded) is returned.
C22_NothingToArchive ==
    (lastOp # "start" /\ arg.todo # None /\ CompletedBefore = <<>>) =>
        /\ lastOp \in {"vec", "returned"}
        /\ files = [todo |-> arg.todo, done |-> arg.done,
                    log |-> <<"open todo">>]
        /\ lastOp = "returned" =>
               ret = [moved |-> 0, list |-> LinesOf(arg.todo[1])]

\* archive of "", "Z Baz" where done.txt does not exist
C22_Witness ==
    /\ lastOp = "returned"
    /\ arg.todo = Some(<<<<>>, <<"Z", " ", "B", "a", "z">>>>)
    /\ arg.done = None
    /\ files.done = None
    /\ files.todo = arg.todo
    /\ ret.moved = 0
    /\ Texts(ret.list) = <<<<>>, <<"Z", " ", "B", "a", "z">>>>

\* C30: done.txt is written before todo.txt is overwritten: at every point
\* of the run, a failure between or within the writes included, every task
\* that was completed in todo.txt is in one of the two files; after a run
\* that returns, the completed tasks are in done.txt and not in todo.txt,
\* behind the lines done.txt had before, which are kept in their order.
C30_ArchiveOrder ==
    /\ \A k \in 1..Len(CompletedBefore) :
           \/ CompletedBefore[k] \in Range(FileLinesOf(files.todo))
           \/ CompletedBefore[k] \in Range(FileLinesOf(files.done))
    /\ \A j, k \in 1..Len(files.log) :
           (files.log[j] = "write done" /\ files.log[k] = "create todo")
               => j < k
    /\ (lastOp = "returned" /\ ret.moved > 0) =>
           /\ files.done = Some(arg.done[1] \o CompletedBefore)
           /\ \A k \in 1..Len(FileLinesOf(files.todo)) :
                  ~IsCompleted(LinesOf(FileLinesOf(files.todo))[k])
           /\ files.log = <<"open todo", "open done", "create done",
                            "write done", "create todo", "write todo">>

\* "x Foo1", "Z Baz" archived behind "x Old1", "x Old2"
C30_Witness ==
    /\ lastOp = "returned"
    /\ arg.todo = Some(<<<<"x", " ", "F", "o", "o", "1">>, <<"Z", " ", "B", "a", "z">>>>)
    /\ arg.done = Some(<<<<"x", " ", "O", "l", "d", "1">>, <<"x", " ", "O", "l", "d", "2">>>>)
    /\ files.todo = Some(<<<<>>, <<"Z", " ", "B", "a", "z">>>>)
    /\ files.done = Some(<<<<"x", " ", "O", "l", "d", "1">>, <<"x", " ", "O", "l", "d", "2">>, <<"x", " ", "F", "o", "o", "1">>>>)

\* todo.txt has been truncated and the write of it has failed: the
\* completed task is in done.txt
C30_FailedBetween ==
    /\ lastOp = "panic"
    /\ arg.todo = Some(<<<<"x", " ", "F", "o", "o", "1">>, <<"Z", " ", "B", "a", "z">>>>)
    /\ files.todo = Some(<<>>)
    /\ files.done = Some(<<<<"x", " ", "F", "o", "o", "1">>>>)

====
